---- MODULE Spec2Model ----
(***************************************************************************)
(* A model of the document processing pipeline of parasail-ai/ocr_pipeline *)
(* (app/tasks/processing.py), of the OCR client (app/services/parasail.py) *)
(* and of the heuristic classifier (app/services/classifier.py).           *)
(*                                                                         *)
(* Python values are modelled as follows.                                  *)
(*   - str: a sequence of one-character strings, so that `in`, lower()     *)
(*     and the regular expressions are computed on the characters;         *)
(*     identifiers that the code only compares (status names, dictionary   *)
(*     keys, model names) stay TLA+ strings.                               *)
(*   - Optional[T]: None, or Some(v).                                      *)
(*   - dict: a function from its keys.                                     *)
(*   - float confidences: hundredths (0.8 is 80).                          *)
(***************************************************************************)
EXTENDS Integers, Sequences, FiniteSets, TLC

None == [none |-> TRUE]
Some(v) == [none |-> FALSE, val |-> v]
IsNone(o) == o.none

\* Python truthiness of an Optional[str]: None and "" are falsy.
Truthy(o) == ~o.none /\ o.val # <<>>

(***************************************************************************)
(* Strings                                                                 *)
(***************************************************************************)

UpperToLower ==
  [A |-> "a", B |-> "b", C |-> "c", D |-> "d", E |-> "e", F |-> "f", G |-> "g",
   H |-> "h", I |-> "i", J |-> "j", K |-> "k", L |-> "l", M |-> "m", N |-> "n",
   O |-> "o", P |-> "p", Q |-> "q", R |-> "r", S |-> "s", T |-> "t", U |-> "u",
   V |-> "v", W |-> "w", X |-> "x", Y |-> "y", Z |-> "z"]

\* str.lower()
Lower(s) ==
  [i \in 1..Len(s) |-> IF s[i] \in DOMAIN UpperToLower THEN UpperToLower[s[i]] ELSE s[i]]

\* `sub in s`
Contains(str, substr) ==
  \E s \in {str}, sub \in {substr} :
     \E i \in 0..(Len(s) - Len(sub)) : SubSeq(s, i + 1, i + Len(sub)) = sub

\* number of positions at which sub occurs in s
Occurrences(s, sub) ==
  Cardinality({i \in 0..(Len(s) - Len(sub)) : SubSeq(s, i + 1, i + Len(sub)) = sub})

\* the regular expression class \w, on the characters the texts are made of
WordChar(c) ==
  \/ c \in DOMAIN UpperToLower
  \/ c \in {UpperToLower[u] : u \in DOMAIN UpperToLower}
  \/ c \in {"0", "1", "2", "3", "4", "5", "6", "7", "8", "9", "_"}

\* re.search(r"\b(phrase)\b", s) for a phrase that starts and ends with a word
\* character: an occurrence with no word character right before or after it
SearchWord(str, pattern) ==
  \E s \in {str}, phrase \in {pattern} :
     \E i \in 0..(Len(s) - Len(phrase)) :
        /\ SubSeq(s, i + 1, i + Len(phrase)) = phrase
        /\ (i = 0 \/ ~WordChar(s[i]))
        /\ (i + Len(phrase) = Len(s) \/ ~WordChar(s[i + Len(phrase) + 1]))

RECURSIVE Join(_, _)
\* sep.join(parts)
Join(parts, sep) ==
  IF parts = <<>> THEN <<>>
  ELSE IF Len(parts) = 1 THEN parts[1]
  ELSE parts[1] \o sep \o Join(Tail(parts), sep)

kw_contract == <<"c", "o", "n", "t", "r", "a", "c", "t">>
kw_msa == <<"m", "a", "s", "t", "e", "r", " ", "s", "e", "r", "v", "i", "c", "e", "s", " ", "a", "g", "r", "e", "e", "m", "e", "n", "t">>
kw_sow == <<"s", "t", "a", "t", "e", "m", "e", "n", "t", " ", "o", "f", " ", "w", "o", "r", "k">>
kw_invoice == <<"i", "n", "v", "o", "i", "c", "e">>
kw_po == <<"p", "u", "r", "c", "h", "a", "s", "e", " ", "o", "r", "d", "e", "r">>
re_total_due == <<"t", "o", "t", "a", "l", " ", "d", "u", "e">>
re_balance_due == <<"b", "a", "l", "a", "n", "c", "e", " ", "d", "u", "e">>
re_invoice_number == <<"i", "n", "v", "o", "i", "c", "e", " ", "n", "u", "m", "b", "e", "r">>
re_scope_of_work == <<"s", "c", "o", "p", "e", " ", "o", "f", " ", "w", "o", "r", "k">>
re_deliverable == <<"d", "e", "l", "i", "v", "e", "r", "a", "b", "l", "e">>

\* words the sample texts are made of
w_Contract == <<"C", "o", "n", "t", "r", "a", "c", "t">>
w_MSA == <<"M", "a", "s", "t", "e", "r", " ", "S", "e", "r", "v", "i", "c", "e", "s", " ", "A", "g", "r", "e", "e", "m", "e", "n", "t">>
w_Invoice == <<"I", "N", "V", "O", "I", "C", "E">>
w_total_due == <<"T", "o", "t", "a", "l", " ", "D", "u", "e">>
w_deliverables == <<"d", "e", "l", "i", "v", "e", "r", "a", "b", "l", "e", "s">>
w_subcontractor == <<"s", "u", "b", "c", "o", "n", "t", "r", "a", "c", "t", "o", "r">>
w_hello == <<"h", "e", "l", "l", "o">>

\* labels and schema names
s_Contract == <<"C", "o", "n", "t", "r", "a", "c", "t">>
s_MSA == <<"M", "S", "A">>
s_SOW == <<"S", "O", "W">>
s_Invoice == <<"I", "n", "v", "o", "i", "c", "e">>
s_Purchase_Order == <<"P", "u", "r", "c", "h", "a", "s", "e", " ", "O", "r", "d", "e", "r">>
s_Statement_of_Work == <<"S", "t", "a", "t", "e", "m", "e", "n", "t", " ", "o", "f", " ", "W", "o", "r", "k">>
s_unknown == <<"u", "n", "k", "n", "o", "w", "n">>
s_None == <<"N", "o", "n", "e">>

\* exception messages, str(exc)
msg_no_api_key == <<"P", "A", "R", "A", "S", "A", "I", "L", "_", "A", "P", "I", "_", "K", "E", "Y", " ", "i", "s", " ", "n", "o", "t", " ", "c", "o", "n", "f", "i", "g", "u", "r", "e", "d", ".">>
msg_split_failed == <<"P", "D", "F", " ", "s", "p", "l", "i", "t", "t", "i", "n", "g", " ", "f", "a", "i", "l", "e", "d", ":", " ", "b", "a", "d", " ", "p", "a", "g", "e">>
msg_timeout == <<"t", "i", "m", "e", "o", "u", "t">>
msg_blob_missing == <<"B", "l", "o", "b", "N", "o", "t", "F", "o", "u", "n", "d">>

\* the texts the provider returns in the pipeline runs
t_invoice == <<"I", "N", "V", "O", "I", "C", "E", " ", "T", "o", "t", "a", "l", " ", "D", "u", "e", ":", " ", "4", "2", ".", "0", "0">>
t_hello == <<" ", "h", "e", "l", "l", "o", "\n">>

PdfMagic == <<"%", "P", "D", "F">>
PngMagic == <<".", "P", "N", "G">>
PageHeadPre == <<"\n", "\n", "=", "=", "=", " ", "P", "a", "g", "e", " ">>
PageHeadPost == <<" ", "=", "=", "=", "\n", "\n">>
ErrPre == <<"[", "E", "R", "R", "O", "R", ":", " ">>
ErrPost == <<"]">>

Digits == <<"0", "1", "2", "3", "4", "5", "6", "7", "8", "9">>

RECURSIVE IntStr(_)
\* str(n) for n >= 0
IntStr(n) ==
  IF n < 10 THEN <<Digits[n + 1]>> ELSE IntStr(n \div 10) \o <<Digits[(n % 10) + 1]>>

Whitespace == {" ", "\n", "\t", "\r"}

RECURSIVE LStrip(_)
LStrip(s) == IF s # <<>> /\ Head(s) \in Whitespace THEN LStrip(Tail(s)) ELSE s

RECURSIVE RStrip(_)
RStrip(s) ==
  IF s # <<>> /\ s[Len(s)] \in Whitespace THEN RStrip(SubSeq(s, 1, Len(s) - 1)) ELSE s

\* str.strip()
Strip(s) == RStrip(LStrip(s))

(***************************************************************************)
(* DocumentClassifier (app/services/classifier.py)                         *)
(***************************************************************************)

ClassificationResult(label, confidence, rationale, schema_name, fields, metadata) ==
  [label |-> label, confidence |-> confidence, rationale |-> rationale,
   suggested_schema_name |-> schema_name, suggested_fields |-> fields,
   metadata |-> metadata]

\* A rationale is a message template and the keyword formatted into it.
Rationale(template, keyword) == [template |-> template, keyword |-> keyword]

EmptyDict == [k \in {} |-> None]

\* C11's mutant: the dataclass defaults to the generic contract label
C11_Mutant_DefaultResult(template) ==
  ClassificationResult(s_Contract, 50, Rationale(template, <<>>), Some(s_Contract),
                       <<>>, EmptyDict)

\* ClassificationResult(rationale=...): the dataclass defaults
DefaultResult(template) ==
  ClassificationResult(s_unknown, 0, Rationale(template, <<>>), None, <<>>, EmptyDict)

\* the rules list of classify, in the order of the source
rules ==
  << [keyword |-> kw_contract, confidence |-> 80, canonical |-> s_Contract,
      fields |-> <<"Effective Date", "Parties", "Term", "Signature">>],
     [keyword |-> kw_msa, confidence |-> 90, canonical |-> s_MSA,
      fields |-> <<"Service Scope", "Term", "Termination", "Fees">>],
     [keyword |-> kw_sow, confidence |-> 85, canonical |-> s_SOW,
      fields |-> <<"Scope", "Deliverables", "Milestones", "Compensation">>],
     [keyword |-> kw_invoice, confidence |-> 90, canonical |-> s_Invoice,
      fields |-> <<"Invoice Number", "Invoice Date", "Total Due", "Payment Terms">>],
     [keyword |-> kw_po, confidence |-> 75, canonical |-> s_Purchase_Order,
      fields |-> <<"PO Number", "Vendor", "Ship To", "Total">>] >>

\* snippets is an ordered mapping: a sequence of [source, text] entries.
\* The first source whose text is truthy and contains the keyword, else None.
_prime_source(snippets, keyword) ==
  LET Hit(i) == /\ Truthy(snippets[i].text)
                /\ \E lowered \in {Lower(snippets[i].text.val)} : Contains(lowered, keyword)
  IN IF \A i \in 1..Len(snippets) : ~Hit(i) THEN None
     ELSE Some(snippets[CHOOSE i \in 1..Len(snippets) :
                          Hit(i) /\ \A j \in 1..(i - 1) : ~Hit(j)].source)

\* the first rule, in list order, whose keyword is in the text
FirstMatchingRule(normalized) ==
  LET Hit(i) == Contains(normalized, rules[i].keyword)
  IN IF \A i \in 1..Len(rules) : ~Hit(i) THEN 0
     ELSE CHOOSE i \in 1..Len(rules) : Hit(i) /\ \A j \in 1..(i - 1) : ~Hit(j)

classify(text, snippets) ==
  IF ~Truthy(text) THEN DefaultResult("No OCR text available.")
  ELSE
    LET normalized == Lower(text.val)
        r == FirstMatchingRule(normalized)
    IN IF r # 0 THEN
         ClassificationResult(
           rules[r].canonical, rules[r].confidence,
           Rationale("Matched keyword '{keyword}' in OCR text.", rules[r].keyword),
           Some(rules[r].canonical), rules[r].fields,
           [k \in {"matched_keyword", "source"} |->
              IF k = "matched_keyword" THEN Some(rules[r].keyword)
              ELSE _prime_source(snippets, rules[r].keyword)])
       ELSE IF \/ SearchWord(normalized, re_total_due)
               \/ SearchWord(normalized, re_balance_due)
               \/ SearchWord(normalized, re_invoice_number) THEN
         ClassificationResult(
           s_Invoice, 60, Rationale("Detected billing-oriented phrases.", <<>>),
           Some(s_Invoice),
           <<"Invoice Number", "Invoice Date", "Total Due", "Billing Address">>,
           [k \in {"source"} |-> _prime_source(snippets, kw_invoice)])
       ELSE IF \/ SearchWord(normalized, re_scope_of_work)
               \/ SearchWord(normalized, re_deliverable) THEN
         ClassificationResult(
           s_Statement_of_Work, 55, Rationale("Found SOW terminology.", <<>>),
           Some(s_Statement_of_Work),
           <<"Scope", "Deliverables", "Timeline", "Payment">>,
           [k \in {"source"} |-> _prime_source(snippets, re_scope_of_work)])
       ELSE DefaultResult("No matching heuristic rule.")

(***************************************************************************)
(* ParasailOCRClient (app/services/parasail.py)                            *)
(*                                                                         *)
(* The provider call, client.chat.completions.create, is the environment:  *)
(* each call either raises or returns a response.  A response is the dict  *)
(* of response.to_dict(): "choices", a list of [message |-> [content]],    *)
(* and "usage".  A content is tagged with its Python type: kind "str"      *)
(* (val: the characters), kind "list" (val: segments, each with an         *)
(* optional text) or kind "none".                                          *)
(***************************************************************************)

Raise(msg) == [raised |-> TRUE, exc |-> msg]
Return(resp) == [raised |-> FALSE, response |-> resp]

StrContent(t) == [kind |-> "str", val |-> t]
ListContent(segs) == [kind |-> "list", val |-> segs]
NoneContent == [kind |-> "none", val |-> <<>>]

Usage == [prompt_tokens |-> 7, completion_tokens |-> 5, total_tokens |-> 12]

ChatResponse(content) ==
  [choices |-> <<[message |-> [content |-> content]]>>, usage |-> Usage]

NoChoicesResponse == [choices |-> <<>>, usage |-> Usage]

\* time.time() before and after a call, and the duration derived from them
Timing(start, end) ==
  [start_time |-> start, end_time |-> end, duration_ms |-> (end - start) * 1000]

WithKey(dict, key, value) ==
  [k \in DOMAIN dict \cup {key} |-> IF k = key THEN value ELSE dict[k]]

\* extract_document: the call's exception is caught and returned as an error
\* payload; a response gets the timing metadata
extract_document(model_name, outcome, start, end) ==
  IF outcome.raised
  THEN [model |-> model_name, error |-> outcome.exc, error_type |-> "Exception",
        message |-> "Parasail OCR request failed. Check API key and model availability.",
        _timing |-> Timing(start, end)]
  ELSE WithKey(outcome.response, "_timing", Timing(start, end))

\* str(x) of a message content formatted into an f-string
FormatContent(content) ==
  IF content.kind = "str" THEN content.val ELSE s_None

\* One iteration of the loop of extract_multi_page, for page page_num: the
\* locals all_pages_text and all_pages_results after it.
PageText(page_num, body) == PageHeadPre \o IntStr(page_num) \o PageHeadPost \o body

\* C24's mutant: a failed page is numbered from 0
C24_Mutant_MultiPageStep(loc, page_num, outcome, start, end) ==
  IF outcome.raised
  THEN [all_pages_text |->
          Append(loc.all_pages_text, PageText(page_num, ErrPre \o outcome.exc \o ErrPost)),
        all_pages_results |->
          Append(loc.all_pages_results,
                 [_page_number |-> page_num - 1, error |-> outcome.exc,
                  error_type |-> "Exception"])]
  ELSE LET result == outcome.response IN
       [all_pages_text |->
          IF "choices" \in DOMAIN result /\ Len(result.choices) > 0
          THEN Append(loc.all_pages_text,
                      PageText(page_num, FormatContent(result.choices[1].message.content)))
          ELSE loc.all_pages_text,
        all_pages_results |->
          Append(loc.all_pages_results,
                 WithKey(WithKey(result, "_page_number", page_num),
                         "_timing", Timing(start, end)))]

MultiPageStep(loc, page_num, outcome, start, end) ==
  IF outcome.raised
  THEN [all_pages_text |->
          Append(loc.all_pages_text, PageText(page_num, ErrPre \o outcome.exc \o ErrPost)),
        all_pages_results |->
          Append(loc.all_pages_results,
                 [_page_number |-> page_num, error |-> outcome.exc,
                  error_type |-> "Exception"])]
  ELSE LET result == outcome.response IN
       [all_pages_text |->
          IF "choices" \in DOMAIN result /\ Len(result.choices) > 0
          THEN Append(loc.all_pages_text,
                      PageText(page_num, FormatContent(result.choices[1].message.content)))
          ELSE loc.all_pages_text,
        all_pages_results |->
          Append(loc.all_pages_results,
                 WithKey(WithKey(result, "_page_number", page_num),
                         "_timing", Timing(start, end)))]

\* the dict extract_multi_page returns after its loop
MultiPageResult(model_name, n_pages, loc, start, end) ==
  [model |-> model_name, page_count |-> n_pages, pages |-> loc.all_pages_results,
   combined_text |-> Join(loc.all_pages_text, <<"\n">>),
   _timing |-> Timing(start, end)]

(***************************************************************************)
(* Helpers of the orchestrator (app/tasks/processing.py)                   *)
(***************************************************************************)

\* the text of one choice, when the loop over choices returns at it
ChoiceText(choice) ==
  LET content == choice.message.content IN
  IF content.kind = "str" THEN Some(content.val)
  ELSE IF content.kind = "list"
  THEN LET segs == SelectSeq(content.val, LAMBDA seg : ~seg.text.none)
       IN IF segs # <<>>
          THEN Some(Join([i \in 1..Len(segs) |-> segs[i].text.val], <<"\n">>))
          ELSE None
  ELSE None

_extract_text_from_parasail_response(response) ==
  IF response.none \/ DOMAIN response.val = {} THEN None
  ELSE
    LET r == response.val
        hits == IF "choices" \in DOMAIN r
                THEN {i \in 1..Len(r.choices) : ~ChoiceText(r.choices[i]).none}
                ELSE {}
    IN IF hits # {}
       THEN ChoiceText(r.choices[CHOOSE i \in hits : \A j \in hits : i <= j])
       ELSE IF "data" \in DOMAIN r /\ SelectSeq(r.data, LAMBDA item : ~item.text.none) # <<>>
       THEN LET items == SelectSeq(r.data, LAMBDA item : ~item.text.none)
            IN Some(Join([i \in 1..Len(items) |-> items[i].text.val], <<"\n">>))
       ELSE IF "text" \in DOMAIN r THEN Some(r.text)
       ELSE None

\* the three characters the source appends to a truncated summary
SummarySuffix == <<"a-circumflex", "euro-sign", "broken-bar">>

_build_summary(parasail_text, docling_text) ==
  LET corpus == IF Truthy(parasail_text) THEN parasail_text ELSE docling_text IN
  IF ~Truthy(corpus) THEN None
  ELSE LET stripped == Strip(corpus.val) IN
       IF Len(stripped) <= 500 THEN Some(stripped)
       ELSE Some(SubSeq(stripped, 1, 500) \o SummarySuffix)

\* PDFSplitterService.is_pdf: content.startswith(b'%PDF')
is_pdf(content) ==
  Len(content.head) >= Len(PdfMagic) /\ SubSeq(content.head, 1, Len(PdfMagic)) = PdfMagic

\* PDFSplitterService.get_page_count: 0 when the document cannot be opened
get_page_count(content) == IF content.readable THEN content.pages ELSE 0

(***************************************************************************)
(* State                                                                   *)
(***************************************************************************)

VARIABLES
  api_key,          \* whether settings.parasail_api_key is configured
  blobs,            \* blob storage: blob path -> Optional stored file
  documents,        \* documents table: id -> Optional row
  metrics,          \* document_metrics table: document id -> Optional row
  ocr_results,      \* document_ocr_results rows, in insertion order
  contents,         \* document_contents rows, in insertion order
  classifications,  \* document_classifications rows, in insertion order
  doc_schemas,      \* document_schemas rows (SchemaAssignment), in insertion order
  schema_defs,      \* schema_definitions rows
  extractions,      \* document_extractions rows, in insertion order
  tasks,            \* per document: the call add_task queued, and how it went
  run,              \* per document: the locals and position of process_document_task
  status_log,       \* per document: every value written to Document.status, in order
  fb,               \* one call of SchemaGenerator.generate_schema_from_text
  li,               \* one call of TableExtractor.extract_line_items
  te,               \* one call of TableExtractor._parse_table_element per representation
  cls               \* the classifier called on its own: input and result

vars == <<api_key, blobs, documents, metrics, ocr_results, contents, classifications,
          doc_schemas, schema_defs, extractions, tasks, run, status_log, cls, fb, li, te>>

pipeline_vars == <<api_key, blobs, documents, metrics, ocr_results, contents,
                   classifications, doc_schemas, schema_defs, extractions, tasks,
                   run, status_log>>

DocIds == {"d1"}

\* the largest page count of an uploaded PDF
MaxPages == 3

\* upload_document rejects a PDF with more pages than this
MaxUploadPages == 5

\* An uploaded file: its first bytes, whether PyMuPDF can open it, its page
\* count, its length and the content type the client declared.
Files ==
  {[head |-> PdfMagic, readable |-> TRUE, pages |-> n, size |-> 100 * n,
    content_type |-> "application/pdf"] : n \in 1..MaxPages}
  \cup {[head |-> PdfMagic, readable |-> FALSE, pages |-> 0, size |-> 9,
         content_type |-> "application/pdf"],
        [head |-> PngMagic, readable |-> FALSE, pages |-> 0, size |-> 50,
         content_type |-> "image/png"]}

ModelNames == {None, Some("m1")}

\* the schema_definitions row that exists before any upload: a user template
InvoiceTemplate ==
  [id |-> 1, name |-> s_Invoice, category |-> Some(kw_invoice),
   fields |-> <<"Invoice Number", "Total Due">>, is_template |-> TRUE]

AD_HOC_SCHEMA_NAME ==
  <<"_", "_", "a", "d", "_", "h", "o", "c", "_", "a", "u", "t", "o", "_",
    "g", "e", "n", "e", "r", "a", "t", "e", "d", "_", "_">>

\* what the provider returns for a whole-document call
DocOutcomes ==
  {Raise(msg_timeout),
   Return(NoChoicesResponse),
   Return(ChatResponse(NoneContent)),
   Return(ChatResponse(StrContent(<<>>))),
   Return(ChatResponse(StrContent(t_invoice))),
   Return(ChatResponse(ListContent(<<[text |-> None], [text |-> Some(t_hello)]>>)))}

\* what the provider returns for one page image
PageOutcomes ==
  {Raise(msg_timeout),
   Return(NoChoicesResponse),
   Return(ChatResponse(StrContent(t_invoice))),
   Return(ChatResponse(StrContent(t_hello)))}

\* time.time() at the start and at the end of a provider call
CallStart == 10
CallEnd == 12

IdleRun ==
  [pc |-> "idle", blob_path |-> None, content_type |-> None, model_name |-> None,
   initial_schema_id |-> None, file_bytes |-> None, parasail_response |-> None,
   parasail_text |-> None, docling_extraction |-> None, docling_text |-> None,
   exc |-> None, schema_data |-> None, tables_attempted |-> FALSE,
   session_open |-> FALSE, ad_hoc_seen |-> None, n_pages |-> 0,
   loc |-> [all_pages_text |-> <<>>, all_pages_results |-> <<>>],
   log |-> {}]

IdleCls == [text |-> None, snippets |-> <<>>, result |-> None]

IdleFb == [ocr_text |-> <<>>, raised |-> FALSE, result |-> None]

IdleLi == [tables |-> <<>>, result |-> None]

IdleTe == [nested |-> EmptyDict, flat |-> EmptyDict, nested_result |-> None,
           flat_result |-> None, parsed |-> FALSE]

Init ==
  /\ api_key \in BOOLEAN
  /\ blobs = [d \in DocIds |-> None]
  /\ documents = [d \in DocIds |-> None]
  /\ metrics = [d \in DocIds |-> None]
  /\ ocr_results = <<>>
  /\ contents = <<>>
  /\ classifications = <<>>
  /\ doc_schemas = <<>>
  /\ schema_defs = {InvoiceTemplate}
  /\ extractions = <<>>
  /\ tasks = [d \in DocIds |-> None]
  /\ run = [d \in DocIds |-> IdleRun]
  /\ status_log = [d \in DocIds |-> <<>>]
  /\ cls = IdleCls
  /\ fb = IdleFb
  /\ li = IdleLi
  /\ te = IdleTe

(***************************************************************************)
(* Upload (app/api/routes/documents.py): the Document row, its Metrics row *)
(* and the arguments the pipeline is started with.                         *)
(***************************************************************************)

\* Document(..., status="processing", details=details) in upload_document
FormUploadStatus == "processing"

\* the column default of Document.status, used by upload_document_base64
DefaultStatus == "uploaded"

NewDocument(status, details, model_name, schema_id) ==
  [status |-> status, details |-> details, selected_model |-> model_name,
   selected_schema_id |-> schema_id, detected_type |-> None,
   detected_confidence |-> None]

NewMetrics(model_name) ==
  [ocr_model |-> model_name, prompt_tokens |-> None, completion_tokens |-> None,
   total_tokens |-> None, ocr_duration_ms |-> None, processed |-> FALSE]

\* background_tasks.add_task(process_document_task, *args): the positional
\* arguments of the queued call
QueuedCall(args) == [args |-> args, outcome |-> "pending"]

\* the five parameters process_document_task is entered with for the Document
QueuedRun(d, content_type, model_name, schema_id) ==
  [IdleRun EXCEPT !.pc = "queued", !.blob_path = Some(d),
                  !.content_type = content_type, !.model_name = model_name,
                  !.initial_schema_id = schema_id]

\* the route's check that a given schema id names a row
SchemaExists(schema_id) ==
  IF schema_id.none THEN TRUE ELSE \E sd \in schema_defs : sd.id = schema_id.val

\* POST /documents
upload_document(d, f, model_name, schema_id) ==
  /\ documents[d].none
  /\ run[d].pc = "idle"
  /\ ~(f.content_type = "application/pdf" /\ is_pdf(f)
       /\ get_page_count(f) > MaxUploadPages)
  /\ SchemaExists(schema_id)
  /\ blobs' = [blobs EXCEPT ![d] = Some(f)]
  /\ documents' = [documents EXCEPT ![d] =
       Some(NewDocument(FormUploadStatus,
                        [content_type |-> f.content_type, preprocessing |-> "automatic"],
                        model_name, schema_id))]
  /\ status_log' = [status_log EXCEPT ![d] = <<FormUploadStatus>>]
  /\ metrics' = [metrics EXCEPT ![d] = Some(NewMetrics(model_name))]
  /\ tasks' = [tasks EXCEPT ![d] =
       Some(QueuedCall(<<d, d, f.content_type, model_name, schema_id, "automatic">>))]
  /\ run' = [run EXCEPT ![d] = QueuedRun(d, Some(f.content_type), model_name, schema_id)]
  /\ UNCHANGED <<api_key, ocr_results, contents, classifications, doc_schemas,
                 schema_defs, extractions, cls, fb, li, te>>

\* POST /documents/base64
upload_document_base64(d, f, model_name, schema_id) ==
  /\ documents[d].none
  /\ run[d].pc = "idle"
  /\ SchemaExists(schema_id)
  /\ blobs' = [blobs EXCEPT ![d] = Some(f)]
  /\ documents' = [documents EXCEPT ![d] =
       Some(NewDocument(DefaultStatus,
                        [content_type |-> f.content_type, uploaded_via |-> "api_base64"],
                        model_name, schema_id))]
  /\ status_log' = [status_log EXCEPT ![d] = <<DefaultStatus>>]
  /\ tasks' = [tasks EXCEPT ![d] =
       Some(QueuedCall(<<d, d, f.content_type, model_name, schema_id, "automatic">>))]
  /\ run' = [run EXCEPT ![d] = QueuedRun(d, Some(f.content_type), model_name, schema_id)]
  /\ UNCHANGED <<api_key, metrics, ocr_results, contents, classifications, doc_schemas,
                 schema_defs, extractions, cls, fb, li, te>>

(***************************************************************************)
(* process_document_task (app/tasks/processing.py), entered with its five  *)
(* parameters.  One action per status write, row commit or external call.  *)
(***************************************************************************)

\* C28's mutant: the update replaces the details
C28_Mutant_MergeDetails(old, update) ==
  LET cleaned == {k \in DOMAIN update : ~update[k].none}
  IN [k \in cleaned |-> update[k].val]

\* {**(document.details or {}), **cleaned_details}, where cleaned_details drops
\* the entries of the update whose value is None
MergeDetails(old, update) ==
  LET cleaned == {k \in DOMAIN update : ~update[k].none}
  IN [k \in DOMAIN old \cup cleaned |-> IF k \in cleaned THEN update[k].val ELSE old[k]]

\* _update_document_status: the documents table after it
_update_document_status(d, status, details) ==
  IF documents[d].none THEN documents
  ELSE [documents EXCEPT ![d] =
          Some([@.val EXCEPT !.status = status,
                             !.details = MergeDetails(@, details)])]

\* the status written when the download raises
DownloadFailureStatus == "error"

\* the status written when the OCR stage raises
OcrExceptionStatus == "ocr_failed"

StatusWrite(d, status, details) ==
  /\ documents' = _update_document_status(d, status, details)
  /\ status_log' = [status_log EXCEPT ![d] =
                      IF documents[d].none THEN @ ELSE Append(@, status)]

\* `if model_name:`
ModelSelected(model_name) == ~model_name.none /\ model_name.val # ""

\* the parameters of process_document_task
TaskParameters ==
  <<"document_id", "blob_path", "content_type", "model_name", "initial_schema_id">>

\* The queued call, `await func(*args)`: positional arguments that do not fit
\* the parameters raise TypeError before the body is entered.
RunBackgroundTask(d) ==
  /\ ~tasks[d].none
  /\ tasks[d].val.outcome = "pending"
  /\ tasks' = [tasks EXCEPT ![d] =
       Some([tasks[d].val EXCEPT
               !.outcome = IF Len(tasks[d].val.args) = Len(TaskParameters)
                           THEN "called" ELSE "TypeError"])]
  /\ UNCHANGED <<api_key, blobs, documents, metrics, ocr_results, contents,
                 classifications, doc_schemas, schema_defs, extractions, run,
                 status_log, cls, fb, li, te>>

\* process_document_task called with its five parameters; lines 52-56, the
\* first status write of a run
StartRun(d) ==
  /\ run[d].pc = "queued"
  /\ StatusWrite(d, "downloading",
                 [stage |-> Some("downloading_from_blob"),
                  blob_path |-> run[d].blob_path])
  /\ run' = [run EXCEPT ![d].pc = "download"]
  /\ UNCHANGED <<api_key, tasks, blobs, metrics, ocr_results, contents, classifications,
                 doc_schemas, schema_defs, extractions, cls, fb, li, te>>

\* C4's mutant: the OCR stage is entered whether or not a model was selected
C4_Mutant_AfterDownload(model_name) == "ocr_start"

\* where the run continues after the download: `if model_name:`
AfterDownload(model_name) ==
  IF ModelSelected(model_name) THEN "ocr_start" ELSE "mark_processing"

\* lines 60-69: download_document returns the bytes
DownloadOk(d) ==
  /\ run[d].pc = "download"
  /\ ~blobs[d].none
  /\ StatusWrite(d, "downloaded",
                 [stage |-> Some("downloaded"), file_size |-> Some(blobs[d].val.size)])
  /\ run' = [run EXCEPT ![d].file_bytes = blobs[d],
                        ![d].pc = AfterDownload(run[d].model_name)]
  /\ UNCHANGED <<api_key, tasks, blobs, metrics, ocr_results, contents, classifications,
                 doc_schemas, schema_defs, extractions, cls, fb, li, te>>

\* C3's mutant: the handler lacks its `return`
C3_Mutant_AfterDownloadFailure == "mark_processing"

\* where the run continues after the download failed: `return`
AfterDownloadFailure == "done"

\* lines 70-73: download_document raises
DownloadFail(d) ==
  /\ run[d].pc = "download"
  /\ StatusWrite(d, DownloadFailureStatus,
                 [error |-> Some(msg_blob_missing), stage |-> Some("download_failed")])
  /\ run' = [run EXCEPT ![d].pc = AfterDownloadFailure,
                        ![d].log = @ \cup {"Failed to download document"}]
  /\ UNCHANGED <<api_key, tasks, blobs, metrics, ocr_results, contents, classifications,
                 doc_schemas, schema_defs, extractions, cls, fb, li, te>>

\* C21's mutant: every PDF is processed page by page
C21_Mutant_OcrMode(file_bytes) ==
  IF is_pdf(file_bytes) THEN "ocr_pages" ELSE "ocr_single"

\* lines 99-147: which extraction the OCR stage runs for the downloaded bytes
OcrMode(file_bytes) ==
  IF is_pdf(file_bytes) /\ get_page_count(file_bytes) > 1 THEN "ocr_pages"
  ELSE "ocr_single"

\* lines 87-113: the ocr_processing status write, the client's construction
\* (RuntimeError without an API key) and, for a multi-page PDF, the split into
\* page images (split_ok: whether split_pdf_to_images returns)
OcrStart(d, split_ok) ==
  /\ run[d].pc = "ocr_start"
  /\ StatusWrite(d, "ocr_processing",
                 [stage |-> Some("running_ocr"), model |-> run[d].model_name])
  /\ LET mode == OcrMode(run[d].file_bytes.val) IN
     IF ~api_key
     THEN run' = [run EXCEPT ![d].pc = "ocr_exc", ![d].exc = Some(msg_no_api_key)]
     ELSE IF mode = "ocr_pages" /\ ~split_ok
     THEN run' = [run EXCEPT ![d].pc = "ocr_exc", ![d].exc = Some(msg_split_failed)]
     ELSE /\ mode = "ocr_pages" \/ split_ok
          /\ run' = [run EXCEPT ![d].pc = mode,
                                ![d].n_pages = IF mode = "ocr_pages"
                                               THEN get_page_count(run[d].file_bytes.val)
                                               ELSE 0]
  /\ UNCHANGED <<api_key, tasks, blobs, metrics, ocr_results, contents, classifications,
                 doc_schemas, schema_defs, extractions, cls, fb, li, te>>

\* lines 129-147: single-call extraction
OcrSingle(d, outcome) ==
  /\ run[d].pc = "ocr_single"
  /\ LET response == extract_document(run[d].model_name.val, outcome, CallStart, CallEnd)
     IN run' = [run EXCEPT
                  ![d].parasail_response = Some(response),
                  ![d].parasail_text = _extract_text_from_parasail_response(Some(response)),
                  ![d].log = IF outcome.raised
                             THEN @ \cup {"Parasail OCR request failed"} ELSE @,
                  ![d].pc = "mark_processing"]
  /\ UNCHANGED <<api_key, tasks, blobs, documents, status_log, metrics, ocr_results, contents,
                 classifications, doc_schemas, schema_defs, extractions, cls, fb, li, te>>

\* lines 116-125 and extract_multi_page: the provider call for the next page;
\* after the last page the combined result and its combined_text
OcrPage(d, outcome) ==
  /\ run[d].pc = "ocr_pages"
  /\ LET page_num == Len(run[d].loc.all_pages_results) + 1
         loc == MultiPageStep(run[d].loc, page_num, outcome, CallStart, CallEnd)
         response == MultiPageResult(run[d].model_name.val, run[d].n_pages, loc,
                                     CallStart, CallEnd)
     IN IF page_num < run[d].n_pages
        THEN run' = [run EXCEPT ![d].loc = loc]
        ELSE run' = [run EXCEPT
                       ![d].loc = IdleRun.loc,
                       ![d].parasail_response = Some(response),
                       ![d].parasail_text = Some(response.combined_text),
                       ![d].pc = "mark_processing"]
  /\ UNCHANGED <<api_key, tasks, blobs, documents, status_log, metrics, ocr_results, contents,
                 classifications, doc_schemas, schema_defs, extractions, cls, fb, li, te>>

\* C2's mutant: the handler ends the run instead of falling through
C2_Mutant_AfterOcrException == "done"

\* where the run continues after the OCR stage's exception handler: the
\* handler falls through to line 166
AfterOcrException == "mark_processing"

\* lines 156-163: the OCR stage's exception handler
OcrException(d) ==
  /\ run[d].pc = "ocr_exc"
  /\ StatusWrite(d, OcrExceptionStatus,
                 [stage |-> Some("ocr_failed"), error |-> run[d].exc])
  /\ run' = [run EXCEPT ![d].parasail_response = Some([error |-> run[d].exc.val]),
                        ![d].exc = None,
                        ![d].log = @ \cup {"Parasail OCR failed"},
                        ![d].pc = AfterOcrException]
  /\ UNCHANGED <<api_key, tasks, blobs, metrics, ocr_results, contents, classifications,
                 doc_schemas, schema_defs, extractions, cls, fb, li, te>>

\* lines 166-182: the details written with the processing status
ProcessingDetails(r) ==
  [content_type |-> r.content_type,
   stage |-> Some("ocr_complete"),
   docling |-> r.docling_extraction,
   docling_text |-> r.docling_text,
   parasail |-> IF ModelSelected(r.model_name)
                THEN Some([model |-> r.model_name.val, response |-> r.parasail_response,
                           text |-> r.parasail_text])
                ELSE None]

MarkProcessing(d) ==
  /\ run[d].pc = "mark_processing"
  /\ StatusWrite(d, "processing", ProcessingDetails(run[d]))
  /\ run' = [run EXCEPT ![d].pc = "store_ocr"]
  /\ UNCHANGED <<api_key, tasks, blobs, metrics, ocr_results, contents, classifications,
                 doc_schemas, schema_defs, extractions, cls, fb, li, te>>

\* C30's mutant: an error payload is not stored
C30_Mutant_OcrResultDue(r) ==
  /\ ModelSelected(r.model_name)
  /\ ~r.parasail_response.none
  /\ "error" \notin DOMAIN r.parasail_response.val

\* C22's mutant: the OCR result is never stored for a run with a model
C22_Mutant_OcrResultDue(r) == ~ModelSelected(r.model_name) /\ ~r.parasail_response.none

\* C5's mutant: the OCR result is stored only when text was extracted
C5_Mutant_OcrResultDue(r) == ModelSelected(r.model_name) /\ Truthy(r.parasail_text)

\* `if model_name and parasail_response is not None:`
OcrResultDue(r) == ModelSelected(r.model_name) /\ ~r.parasail_response.none

\* _store_ocr_result: the row it adds
OcrResultRow(d, r) ==
  LET raw == r.parasail_response.val
      timing == IF "_timing" \in DOMAIN raw THEN Some(raw._timing) ELSE None
  IN [document_id |-> d, model_name |-> r.model_name.val, raw_response |-> raw,
      extracted_text |-> r.parasail_text,
      summary |-> _build_summary(r.parasail_text, r.docling_text),
      duration_ms |-> IF timing.none THEN None ELSE Some(timing.val.duration_ms)]

\* C23's mutant: the update only marks the row processed
C23_Mutant_update_metrics_with_ocr_data(d, parasail_response) ==
  IF metrics[d].none THEN metrics
  ELSE [metrics EXCEPT ![d] = Some([metrics[d].val EXCEPT !.processed = TRUE])]

\* _update_metrics_with_ocr_data: the metrics table after it
_update_metrics_with_ocr_data(d, parasail_response) ==
  IF metrics[d].none THEN metrics
  ELSE LET m == metrics[d].val
           usage == IF "usage" \in DOMAIN parasail_response
                    THEN Some(parasail_response.usage) ELSE None
           timing == IF "_timing" \in DOMAIN parasail_response
                     THEN Some(parasail_response._timing) ELSE None
       IN [metrics EXCEPT ![d] = Some(
             [m EXCEPT
                !.prompt_tokens = IF usage.none THEN @ ELSE Some(usage.val.prompt_tokens),
                !.completion_tokens =
                   IF usage.none THEN @ ELSE Some(usage.val.completion_tokens),
                !.total_tokens = IF usage.none THEN @ ELSE Some(usage.val.total_tokens),
                !.ocr_duration_ms = IF timing.none THEN @ ELSE Some(timing.val.duration_ms),
                !.processed = TRUE])]

\* lines 184-197
StoreOcr(d) ==
  /\ run[d].pc = "store_ocr"
  /\ IF OcrResultDue(run[d])
     THEN /\ ocr_results' = Append(ocr_results, OcrResultRow(d, run[d]))
          /\ metrics' = _update_metrics_with_ocr_data(d, run[d].parasail_response.val)
          /\ run' = [run EXCEPT ![d].pc = "store_contents",
                                ![d].log = IF metrics[d].none
                                           THEN @ \cup {"No metrics record found"} ELSE @]
     ELSE /\ UNCHANGED <<ocr_results, metrics>>
          /\ run' = [run EXCEPT ![d].pc = "store_contents"]
  /\ UNCHANGED <<api_key, tasks, blobs, documents, status_log, contents, classifications,
                 doc_schemas, schema_defs, extractions, cls, fb, li, te>>

\* C15's mutant: the OCR text is left out of the content rows
C15_Mutant_ContentRows(d, sources) ==
  LET kept == SelectSeq(sources, LAMBDA e : Truthy(e.text) /\ e.source # "parasail")
  IN [i \in 1..Len(kept) |->
        [document_id |-> d, source |-> kept[i].source, text |-> kept[i].text.val,
         fragment_metadata |-> [length |-> Len(kept[i].text.val)]]]

\* _store_document_contents: one row per source whose text is truthy, in the
\* order of the dict {"parasail": ..., "docling": ...}
ContentRows(d, sources) ==
  LET kept == SelectSeq(sources, LAMBDA e : Truthy(e.text))
  IN [i \in 1..Len(kept) |->
        [document_id |-> d, source |-> kept[i].source, text |-> kept[i].text.val,
         fragment_metadata |-> [length |-> Len(kept[i].text.val)]]]

Snippets(r) ==
  <<[source |-> "parasail", text |-> r.parasail_text],
    [source |-> "docling", text |-> r.docling_text]>>

\* `base_text = parasail_text or docling_text`
BaseText(r) == IF Truthy(r.parasail_text) THEN r.parasail_text ELSE r.docling_text

\* C17's mutant: inference runs whenever no schema was chosen
C17_Mutant_InferenceDue(r) == r.initial_schema_id.none

\* C14's mutant: inference runs whenever there is text
C14_Mutant_InferenceDue(r) == Truthy(BaseText(r))

\* lines 221-239: whether classification and schema generation run
InferenceDue(r) == Truthy(BaseText(r)) /\ r.initial_schema_id.none

\* dict.get(key, default)
Get(dict, key, default) == IF key \in DOMAIN dict THEN dict[key] ELSE default

(***************************************************************************)
(* TableExtractor.extract_line_items (app/services/table_extractor.py).    *)
(* A table is a dict that may hold "headers", "rows" and "metadata"; an    *)
(* item is a dict from header to cell, with the two bookkeeping keys.      *)
(***************************************************************************)

C16_Mutant_RowItem(table, headers, row, row_idx) ==
  LET cols == {c \in 1..Len(headers) : c <= Len(row)}
      keys == {headers[c] : c \in cols}
      Last(h) == CHOOSE c \in cols :
                   headers[c] = h /\ \A c2 \in cols : headers[c2] = h => c2 <= c
  IN IF keys = {} THEN EmptyDict
     ELSE [k \in keys \cup {"_line_number", "_table_metadata"} |->
             IF k = "_table_metadata" THEN Get(table, "metadata", EmptyDict)
             ELSE IF k = "_line_number" THEN row_idx
             ELSE row[Last(k)]]

\* lines 219-226: the item of one row, the empty dict when no header has a cell
RowItem(table, headers, row, row_idx) ==
  LET cols == {c \in 1..Len(headers) : c <= Len(row)}
      keys == {headers[c] : c \in cols}
      Last(h) == CHOOSE c \in cols :
                   headers[c] = h /\ \A c2 \in cols : headers[c2] = h => c2 <= c
  IN IF keys = {} THEN EmptyDict
     ELSE [k \in keys \cup {"_line_number", "_table_metadata"} |->
             IF k = "_table_metadata" THEN Get(table, "metadata", EmptyDict)
             ELSE IF k = "_line_number" THEN row_idx + 1
             ELSE row[Last(k)]]

\* lines 212-227: the items one table contributes; row_idx counts from 0
TableItems(table) ==
  LET headers == Get(table, "headers", <<>>)
      rows == Get(table, "rows", <<>>)
  IN IF headers = <<>> \/ rows = <<>> THEN <<>>
     ELSE SelectSeq([r \in 1..Len(rows) |-> RowItem(table, headers, rows[r], r - 1)],
                    LAMBDA item : DOMAIN item # {})

RECURSIVE extract_line_items(_)
extract_line_items(tables) ==
  IF tables = <<>> THEN <<>>
  ELSE TableItems(Head(tables)) \o extract_line_items(Tail(tables))

\* the largest number of tables given to extract_line_items
MaxTables == 2

TableMetadata == [page |-> 1]

ExampleTable ==
  [headers |-> <<"A", "B">>, rows |-> <<<<"1", "2">>, <<"3", "4">>>>,
   metadata |-> TableMetadata]

RaggedTable ==
  [headers |-> <<"A", "B">>, rows |-> <<<<"1">>, <<>>, <<"3", "4", "5">>>>,
   metadata |-> TableMetadata]

SampleTables ==
  {ExampleTable,
   [headers |-> <<"A", "B">>, rows |-> <<<<"5", "6">>>>],
   RaggedTable,
   [headers |-> <<"A", "A">>, rows |-> <<<<"1", "2">>>>],
   [headers |-> <<"A", "_line_number">>, rows |-> <<<<"1", "2">>>>],
   [headers |-> <<>>, rows |-> <<<<"1", "2">>>>, metadata |-> TableMetadata],
   [headers |-> <<"A", "B">>, rows |-> <<>>],
   [rows |-> <<<<"1", "2">>>>],
   [headers |-> <<"A", "B">>],
   [metadata |-> TableMetadata]}

\* what TableExtractor.extract_tables returns
TableOutcomes == UNION {[1..n -> SampleTables] : n \in 0..MaxTables}

\* _extract_and_store_tables: the rows it adds to document_extractions.
\* installed is whether docling imported (table_extractor.py lines 8-13), so
\* whether TableExtractor() raises RuntimeError; tables is what extract_tables
\* returns.
_extract_and_store_tables(d, installed, tables) ==
  IF ~installed \/ tables = <<>> THEN <<>>
  ELSE LET line_items == extract_line_items(tables) IN
       [i \in 1..Len(tables) |->
          [document_id |-> d, extraction_type |-> "table", source |-> "docling",
           data |-> tables[i],
           extraction_metadata |->
             [table_index |-> i - 1,
              row_count |-> Get(tables[i], "row_count", 0),
              column_count |-> Get(tables[i], "column_count", 0)]]]
       \o (IF line_items = <<>> THEN <<>>
           ELSE <<[document_id |-> d, extraction_type |-> "line_items",
                   source |-> "docling", data |-> [items |-> line_items],
                   extraction_metadata |->
                     [item_count |-> Len(line_items),
                      source_tables |-> Len(tables)]]>>)

\* lines 199-218: the content rows, then `if docling_extraction:` decides
\* whether _extract_and_store_tables is called (tables_attempted); an
\* exception of that call is logged (line 216)
StoreContents(d) ==
  /\ run[d].pc = "store_contents"
  /\ contents' = contents \o ContentRows(d, Snippets(run[d]))
  /\ IF Truthy(run[d].docling_extraction)
     THEN \E installed \in BOOLEAN, tables \in TableOutcomes :
            extractions' = extractions \o _extract_and_store_tables(d, installed, tables)
     ELSE UNCHANGED extractions
  /\ run' = [run EXCEPT
       ![d].pc = IF InferenceDue(run[d]) THEN "classify" ELSE "finish",
       ![d].tables_attempted = Truthy(run[d].docling_extraction)]
  /\ UNCHANGED <<api_key, tasks, blobs, documents, status_log, metrics, ocr_results,
                 classifications, doc_schemas, schema_defs, cls, fb, li, te>>

\* select(SchemaDefinition.id).where(lower(name) == lower(suggested name))
SchemaIdByName(name) ==
  LET hits == {sd \in schema_defs : Lower(sd.name) = Lower(name)}
  IN IF hits = {} THEN None ELSE Some((CHOOSE sd \in hits : TRUE).id)

\* C29's mutant: the suggested schema is selected whenever there is one
C29_Mutant_SelectedAfterClassify(selected_schema_id, suggested_schema_id) ==
  IF ~suggested_schema_id.none THEN suggested_schema_id ELSE selected_schema_id

\* lines 362-363: `if document.selected_schema_id is None and suggested_schema_id:`
SelectedAfterClassify(selected_schema_id, suggested_schema_id) ==
  IF selected_schema_id.none /\ ~suggested_schema_id.none
  THEN suggested_schema_id ELSE selected_schema_id

\* _maybe_classify_document
Classify(d) ==
  /\ run[d].pc = "classify"
  /\ \E suggestion \in {classify(BaseText(run[d]), Snippets(run[d]))} :
     LET suggested_schema_id ==
           IF suggestion.suggested_schema_name.none THEN None
           ELSE SchemaIdByName(suggestion.suggested_schema_name.val)
     IN IF documents[d].none
        THEN UNCHANGED <<classifications, documents>>
        ELSE /\ classifications' = Append(classifications,
                  [document_id |-> d, label |-> suggestion.label,
                   confidence |-> suggestion.confidence,
                   rationale |-> suggestion.rationale,
                   suggested_schema_id |-> suggested_schema_id,
                   extra |-> WithKey(suggestion.metadata, "suggested_fields",
                                     suggestion.suggested_fields)])
             /\ documents' = [documents EXCEPT ![d] = Some(
                  [@.val EXCEPT
                     !.selected_schema_id = SelectedAfterClassify(@, suggested_schema_id),
                     !.detected_type =
                        IF suggestion.label # s_unknown THEN Some(suggestion.label) ELSE @,
                     !.detected_confidence =
                        IF suggestion.label # s_unknown
                        THEN Some(suggestion.confidence) ELSE @])]
  /\ run' = [run EXCEPT ![d].pc = "schema"]
  /\ UNCHANGED <<api_key, tasks, blobs, status_log, metrics, ocr_results, contents,
                 doc_schemas, schema_defs, extractions, cls, fb, li, te>>

(***************************************************************************)
(* Schema inference (app/services/ai_schema_generator.py and               *)
(* _auto_generate_schema).  The generative call either raises or returns   *)
(* a message content; json is what json.loads makes of the sanitized       *)
(* content: None when it does not parse, else the parsed dict.             *)
(***************************************************************************)

NoValues == [k \in {} |-> <<>>]

ProposedFields == <<[key |-> "total", query |-> "Find the total", required |-> TRUE]>>

CompleteProposal(values) ==
  [schema_name |-> s_Invoice, category |-> kw_invoice,
   description |-> "An invoice", fields |-> ProposedFields,
   extracted_values |-> values]

SchemaOutcomes ==
  {Raise(msg_timeout),
   Return([json |-> None]),
   Return([json |-> Some([schema_name |-> s_Invoice, fields |-> ProposedFields])]),
   Return([json |-> Some(CompleteProposal(NoValues))]),
   Return([json |-> Some(CompleteProposal([total |-> <<"4", "2", ".", "0", "0">>]))])}

\* AISchemaGenerator.generate_schema_from_ocr: every failure is re-raised as a
\* RuntimeError; a parsed dict with the three required keys is returned
generate_schema_from_ocr(outcome) ==
  IF outcome.raised THEN Raise("Failed to generate schema")
  ELSE IF outcome.response.json.none THEN Raise("AI returned invalid JSON")
  ELSE IF ~({"schema_name", "fields", "extracted_values"}
             \subseteq DOMAIN outcome.response.json.val)
  THEN Raise("Failed to generate schema")
  ELSE Return(outcome.response.json.val)

AdHocSchema == {sd \in schema_defs : sd.name = AD_HOC_SCHEMA_NAME}

NextSchemaId == Cardinality(schema_defs) + 1

\* _auto_generate_schema, lines 510-529.  Both generators' constructors raise
\* RuntimeError exactly when the API key is not configured, so without a key
\* the function returns before it touches the database.  With a key it opens
\* its session and reads the Document; the session stays open over the
\* generative call that follows.
AutoSchemaOpen(d) ==
  /\ run[d].pc = "schema"
  /\ run' = IF ~api_key
            THEN [run EXCEPT ![d].pc = "finish",
                             ![d].log = @ \cup {"No schema generators available"}]
            ELSE IF documents[d].none
            THEN [run EXCEPT ![d].pc = "finish"]
            ELSE [run EXCEPT ![d].pc = "schema_call", ![d].session_open = TRUE]
  /\ UNCHANGED <<api_key, tasks, blobs, documents, status_log, metrics, ocr_results,
                 contents, classifications, doc_schemas, schema_defs, extractions,
                 cls, fb, li, te>>

\* _auto_generate_schema, lines 531-564: the generative call returns or
\* raises; a failure is logged (line 605) and the session is closed with
\* nothing written.  After a proposal the reserved SchemaDefinition is
\* selected by name (lines 561-564): ad_hoc_seen is the id of the row this
\* session saw, None when it saw none.
AutoSchema(d, outcome) ==
  /\ run[d].pc = "schema_call"
  /\ LET got == generate_schema_from_ocr(outcome) IN
     run' = IF got.raised
            THEN [run EXCEPT
                    ![d].pc = "finish",
                    ![d].session_open = FALSE,
                    ![d].log = @ \cup {"Failed to auto-generate schema with AI"}]
            ELSE [run EXCEPT
                    ![d].pc = "schema_write",
                    ![d].schema_data = Some(got.response),
                    ![d].ad_hoc_seen =
                       IF AdHocSchema = {} THEN None
                       ELSE Some((CHOOSE sd \in AdHocSchema : TRUE).id)]
  /\ UNCHANGED <<api_key, tasks, blobs, documents, status_log, metrics, ocr_results,
                 contents, classifications, doc_schemas, schema_defs, extractions,
                 cls, fb, li, te>>

\* _auto_generate_schema, lines 566-605: the session that saw no reserved row
\* inserts one, the session that saw one overwrites its fields; the
\* SchemaAssignment is added and all is committed.  name is unique
\* (models.py line 76): the insert of a session that saw no row, made after
\* another session committed its own, raises IntegrityError, which the
\* handler of line 604 logs, and the session is closed with nothing written.
AutoSchemaCommit(d) ==
  /\ run[d].pc = "schema_write"
  /\ LET schema_data == run[d].schema_data.val
         category == Get(schema_data, "category", s_unknown)
         fields == Get(schema_data, "fields", <<>>)
         extracted_values == Get(schema_data, "extracted_values", NoValues)
         integrity_error == run[d].ad_hoc_seen.none /\ AdHocSchema # {}
         ad_hoc_id == IF run[d].ad_hoc_seen.none THEN NextSchemaId
                      ELSE run[d].ad_hoc_seen.val
     IN /\ run' = [run EXCEPT
             ![d].pc = "finish",
             ![d].session_open = FALSE,
             ![d].ad_hoc_seen = None,
             ![d].log = IF integrity_error
                        THEN @ \cup {"Failed to auto-generate schema with AI"} ELSE @]
        /\ IF integrity_error
           THEN UNCHANGED <<schema_defs, doc_schemas, documents>>
           ELSE
             /\ schema_defs' =
                  IF run[d].ad_hoc_seen.none
                  THEN schema_defs \cup
                         {[id |-> ad_hoc_id, name |-> AD_HOC_SCHEMA_NAME,
                           category |-> Some(<<"s", "y", "s", "t", "e", "m">>),
                           fields |-> fields, is_template |-> FALSE]}
                  ELSE {IF sd.id = ad_hoc_id
                        THEN [sd EXCEPT !.fields = fields] ELSE sd : sd \in schema_defs}
             /\ IF DOMAIN extracted_values # {}
                THEN /\ doc_schemas' = Append(doc_schemas,
                          [document_id |-> d, schema_id |-> ad_hoc_id,
                           extracted_values |-> extracted_values])
                     /\ documents' = [documents EXCEPT ![d] = Some(
                          [@.val EXCEPT
                             !.detected_type =
                                IF ~Truthy(@) /\ category # s_unknown
                                THEN Some(category) ELSE @,
                             !.detected_confidence =
                                IF ~Truthy(documents[d].val.detected_type)
                                   /\ category # s_unknown
                                THEN Some(90) ELSE @])]
                ELSE UNCHANGED <<doc_schemas, documents>>
  /\ UNCHANGED <<api_key, tasks, blobs, status_log, metrics, ocr_results, contents,
                 classifications, extractions, cls, fb, li, te>>

\* lines 242-246
MarkProcessed(d) ==
  /\ run[d].pc = "finish"
  /\ StatusWrite(d, "processed",
                 [stage |-> Some("complete"), extraction_complete |-> Some(TRUE)])
  /\ run' = [run EXCEPT ![d].pc = "done"]
  /\ UNCHANGED <<api_key, tasks, blobs, metrics, ocr_results, contents, classifications,
                 doc_schemas, schema_defs, extractions, cls, fb, li, te>>

RunStep(d) ==
  \/ StartRun(d)
  \/ DownloadOk(d)
  \/ DownloadFail(d)
  \/ \E split_ok \in BOOLEAN : OcrStart(d, split_ok)
  \/ \E outcome \in DocOutcomes : OcrSingle(d, outcome)
  \/ \E outcome \in PageOutcomes : OcrPage(d, outcome)
  \/ OcrException(d)
  \/ MarkProcessing(d)
  \/ StoreOcr(d)
  \/ StoreContents(d)
  \/ Classify(d)
  \/ AutoSchemaOpen(d)
  \/ \E outcome \in SchemaOutcomes : AutoSchema(d, outcome)
  \/ AutoSchemaCommit(d)
  \/ MarkProcessed(d)

Upload(d) ==
  \E f \in Files, model_name \in ModelNames, schema_id \in {None, Some(InvoiceTemplate.id)} :
     \/ upload_document(d, f, model_name, schema_id)
     \/ upload_document_base64(d, f, model_name, schema_id)

Next == \E d \in DocIds : Upload(d) \/ RunBackgroundTask(d) \/ RunStep(d)

Spec == Init /\ [][Next]_vars

\* A started background task runs to its end: every step of a run that is
\* enabled is eventually taken.
FairSpec == Spec /\ \A d \in DocIds : WF_vars(RunStep(d))

(***************************************************************************)
(* The classifier called on its own, on texts made of up to MaxWords words *)
(***************************************************************************)

MaxWords == 2

Vocabulary ==
  {w_Contract, w_MSA, w_Invoice, w_total_due, w_deliverables, w_subcontractor,
   w_hello, kw_sow, kw_po, re_scope_of_work, re_deliverable, re_balance_due}

SampleTexts ==
  {None} \cup
  {Some(Join(ws, <<" ">>)) : ws \in UNION {[1..n -> Vocabulary] : n \in 0..MaxWords}}

SampleSnippets(text) ==
  {<<>>,
   <<[source |-> "parasail", text |-> text], [source |-> "docling", text |-> None]>>,
   <<[source |-> "parasail", text |-> None], [source |-> "docling", text |-> text]>>,
   <<[source |-> "parasail", text |-> Some(w_hello)],
     [source |-> "docling", text |-> text]>>}

ClassifyInit ==
  /\ api_key = TRUE
  /\ blobs = [d \in DocIds |-> None]
  /\ documents = [d \in DocIds |-> None]
  /\ metrics = [d \in DocIds |-> None]
  /\ ocr_results = <<>>
  /\ contents = <<>>
  /\ classifications = <<>>
  /\ doc_schemas = <<>>
  /\ schema_defs = {InvoiceTemplate}
  /\ extractions = <<>>
  /\ tasks = [d \in DocIds |-> None]
  /\ run = [d \in DocIds |-> IdleRun]
  /\ status_log = [d \in DocIds |-> <<>>]
  /\ \E text \in SampleTexts : \E snippets \in SampleSnippets(text) :
        cls = [text |-> text, snippets |-> snippets, result |-> None]
  /\ fb = IdleFb
  /\ li = IdleLi
  /\ te = IdleTe

ClassifyCall ==
  /\ cls.result.none
  /\ cls' = [cls EXCEPT !.result = Some(classify(cls.text, cls.snippets))]
  /\ UNCHANGED <<pipeline_vars, fb, li, te>>

ClassifySpec == ClassifyInit /\ [][ClassifyCall]_vars

(***************************************************************************)
(* SchemaGenerator (app/services/schema_generator.py): the heuristic       *)
(* proposal built from the text when the generative call fails.  A dict is *)
(* the sequence of its [key, value] entries in insertion order.            *)
(***************************************************************************)

\* `for line in lines[:50]`
ScanLimit == 50

\* `len(key) < 50`
MaxKeyLen == 50

\* position of the first sep in s, 0 when there is none
FirstIndex(str, sep) ==
  LET s == str IN
  IF \A i \in 1..Len(s) : s[i] # sep THEN 0
  ELSE CHOOSE i \in 1..Len(s) : s[i] = sep /\ \A j \in 1..(i - 1) : s[j] # sep

RECURSIVE Split(_, _)
\* str.split(sep) for a one-character sep
Split(s, sep) ==
  IF FirstIndex(s, sep) = 0 THEN <<s>>
  ELSE <<SubSeq(s, 1, FirstIndex(s, sep) - 1)>>
       \o Split(SubSeq(s, FirstIndex(s, sep) + 1, Len(s)), sep)

\* str.split(sep, 1)
SplitOnce(s, sep) ==
  IF FirstIndex(s, sep) = 0 THEN <<s>>
  ELSE <<SubSeq(s, 1, FirstIndex(s, sep) - 1), SubSeq(s, FirstIndex(s, sep) + 1, Len(s))>>

\* str.replace(old, new) for one-character strings
Replace(s, old, new) == [i \in 1..Len(s) |-> IF s[i] = old THEN new ELSE s[i]]

\* dict[key] = value: a new key is appended, an existing key keeps its place
DictSet(dict, key, value) ==
  IF \E i \in 1..Len(dict) : dict[i].key = key
  THEN [i \in 1..Len(dict) |->
          IF dict[i].key = key THEN [key |-> key, value |-> value] ELSE dict[i]]
  ELSE Append(dict, [key |-> key, value |-> value])

\* C12's mutant: the key keeps its capital letters
C12_Mutant_LineKey(parts) == Replace(Replace(Strip(parts[1]), " ", "_"), "-", "_")

\* lines 162-163: the key and the value of the two parts of a line
LineKey(parts) == Replace(Replace(Lower(Strip(parts[1])), " ", "_"), "-", "_")

LineValue(parts) == Strip(parts[2])

\* lines 158-165: the body of the loop for one line
ScanLine(extracted_values, raw_line) ==
  LET line == Strip(raw_line)
      parts == SplitOnce(line, ":")
  IN IF FirstIndex(line, ":") # 0 /\ Len(parts) = 2
        /\ LineKey(parts) # <<>> /\ LineValue(parts) # <<>>
        /\ Len(LineKey(parts)) < MaxKeyLen
     THEN DictSet(extracted_values, LineKey(parts), LineValue(parts))
     ELSE extracted_values

RECURSIVE ScanLines(_, _)
\* the loop over the scanned lines
ScanLines(extracted_values, lines) ==
  IF lines = <<>> THEN extracted_values
  ELSE ScanLines(ScanLine(extracted_values, Head(lines)), Tail(lines))

\* lines of OCR text, and the keys and values of the documented example
ln_invoice_number == <<"I", "n", "v", "o", "i", "c", "e", " ", "N", "u", "m", "b", "e", "r", ":", " ", "I", "N", "V", "-", "0", "0", "1">>
ln_total == <<"T", "o", "t", "a", "l", ":", " ", "4", "2", ".", "0", "0">>
ln_total_again == <<"t", "o", "t", "a", "l", " ", ":", " ", "7">>
ln_ship_to == <<" ", "S", "h", "i", "p", "-", "T", "o", " ", ":", " ", "a", ":", "b", " ">>
ln_no_colon == <<"h", "e", "l", "l", "o">>
ln_no_key == <<":", " ", "x">>
ln_no_value == <<"D", "u", "e", " ", "D", "a", "t", "e", ":", " ", " ">>
k_invoice_number == <<"i", "n", "v", "o", "i", "c", "e", "_", "n", "u", "m", "b", "e", "r">>
k_total == <<"t", "o", "t", "a", "l">>
v_inv_001 == <<"I", "N", "V", "-", "0", "0", "1">>
v_42_00 == <<"4", "2", ".", "0", "0">>
s_Generic_Document == <<"G", "e", "n", "e", "r", "i", "c", " ", "D", "o", "c", "u", "m", "e", "n", "t">>
FieldDescPre == <<"E", "x", "t", "r", "a", "c", "t", "e", "d", " ", "f", "i", "e", "l", "d", ":", " ">>

\* lines[:50]
ScannedLines(ocr_text) ==
  LET lines == Split(ocr_text, "\n")
  IN SubSeq(lines, 1, IF Len(lines) < ScanLimit THEN Len(lines) ELSE ScanLimit)

_create_fallback_schema(ocr_text) ==
  LET extracted_values == ScanLines(<<>>, ScannedLines(ocr_text))
  IN [schema_name |-> s_Generic_Document,
      category |-> s_unknown,
      description |-> "Auto-generated fallback schema",
      fields |-> [i \in 1..Len(extracted_values) |->
                    [key |-> extracted_values[i].key,
                     value_type |-> "string",
                     description |-> FieldDescPre \o extracted_values[i].key,
                     required |-> FALSE]],
      extracted_values |-> extracted_values]

\* generate_schema_from_text: what the provider call and json.loads give, or
\* the fallback when either raises
generate_schema_from_text(ocr_text, outcome) ==
  IF outcome.raised \/ outcome.response.json.none
  THEN _create_fallback_schema(ocr_text)
  ELSE outcome.response.json.val

\* the largest number of lines of a text given to the generator
MaxLines == 2

ln_long_key == [i \in 1..MaxKeyLen |-> "k"] \o <<":", " ", "v">>

SampleLines ==
  {ln_invoice_number, ln_total, ln_total_again, ln_ship_to, ln_no_colon, ln_no_key,
   ln_no_value, ln_long_key}

SampleOcrTexts ==
  {Join(ls, <<"\n">>) : ls \in UNION {[1..n -> SampleLines] : n \in 0..MaxLines}}

\* the provider raises, answers with text that is not JSON, or answers with JSON
GeneratorOutcomes ==
  {Raise(msg_timeout),
   Return([json |-> None]),
   Return([json |-> Some([schema_name |-> s_Invoice, fields |-> <<>>,
                          extracted_values |-> <<>>])])}

FallbackInit ==
  /\ api_key = TRUE
  /\ blobs = [d \in DocIds |-> None]
  /\ documents = [d \in DocIds |-> None]
  /\ metrics = [d \in DocIds |-> None]
  /\ ocr_results = <<>>
  /\ contents = <<>>
  /\ classifications = <<>>
  /\ doc_schemas = <<>>
  /\ schema_defs = {InvoiceTemplate}
  /\ extractions = <<>>
  /\ tasks = [d \in DocIds |-> None]
  /\ run = [d \in DocIds |-> IdleRun]
  /\ status_log = [d \in DocIds |-> <<>>]
  /\ cls = IdleCls
  /\ \E ocr_text \in SampleOcrTexts :
        fb = [ocr_text |-> ocr_text, raised |-> FALSE, result |-> None]
  /\ li = IdleLi
  /\ te = IdleTe

FallbackCall ==
  /\ fb.result.none
  /\ \E outcome \in GeneratorOutcomes :
        fb' = [fb EXCEPT
                 !.raised = outcome.raised \/ outcome.response.json.none,
                 !.result = Some(generate_schema_from_text(fb.ocr_text, outcome))]
  /\ UNCHANGED <<pipeline_vars, cls, li, te>>

FallbackSpec == FallbackInit /\ [][FallbackCall]_vars

(***************************************************************************)
(* TableExtractor.extract_line_items called on its own, on up to MaxTables *)
(* tables                                                                  *)
(***************************************************************************)

LineItemsInit ==
  /\ api_key = TRUE
  /\ blobs = [d \in DocIds |-> None]
  /\ documents = [d \in DocIds |-> None]
  /\ metrics = [d \in DocIds |-> None]
  /\ ocr_results = <<>>
  /\ contents = <<>>
  /\ classifications = <<>>
  /\ doc_schemas = <<>>
  /\ schema_defs = {InvoiceTemplate}
  /\ extractions = <<>>
  /\ tasks = [d \in DocIds |-> None]
  /\ run = [d \in DocIds |-> IdleRun]
  /\ status_log = [d \in DocIds |-> <<>>]
  /\ cls = IdleCls
  /\ fb = IdleFb
  /\ \E tables \in UNION {[1..n -> SampleTables] : n \in 0..MaxTables} :
        li = [tables |-> tables, result |-> None]
  /\ te = IdleTe

LineItemsCall ==
  /\ li.result.none
  /\ li' = [li EXCEPT !.result = Some(extract_line_items(li.tables))]
  /\ UNCHANGED <<pipeline_vars, cls, fb, te>>

LineItemsSpec == LineItemsInit /\ [][LineItemsCall]_vars

(***************************************************************************)
(* Two Documents processed concurrently: each is uploaded as an image with *)
(* a model and no schema, OCR returns text, and the inference call returns *)
(* one of two complete proposals.  The steps of the two runs interleave    *)
(* at the awaits of process_document_task.                                 *)
(***************************************************************************)

PairIds == {"d1", "d2"}

PairFile == CHOOSE f \in Files : f.content_type = "image/png"

LineItemFields ==
  <<[key |-> "line_items", query |-> "Find the line items", required |-> FALSE]>>

PairSchemaOutcomes ==
  {Return([json |-> Some(CompleteProposal([total |-> <<"4", "2", ".", "0", "0">>]))]),
   Return([json |-> Some([CompleteProposal([total |-> <<"7">>])
                            EXCEPT !.fields = LineItemFields])])}

PairInit ==
  /\ api_key = TRUE
  /\ blobs = [d \in PairIds |-> None]
  /\ documents = [d \in PairIds |-> None]
  /\ metrics = [d \in PairIds |-> None]
  /\ ocr_results = <<>>
  /\ contents = <<>>
  /\ classifications = <<>>
  /\ doc_schemas = <<>>
  /\ schema_defs = {InvoiceTemplate}
  /\ extractions = <<>>
  /\ tasks = [d \in PairIds |-> None]
  /\ run = [d \in PairIds |-> IdleRun]
  /\ status_log = [d \in PairIds |-> <<>>]
  /\ cls = IdleCls
  /\ fb = IdleFb
  /\ li = IdleLi
  /\ te = IdleTe

PairStep(d) ==
  \/ upload_document(d, PairFile, Some("m1"), None)
  \/ StartRun(d)
  \/ DownloadOk(d)
  \/ OcrStart(d, TRUE)
  \/ OcrSingle(d, Return(ChatResponse(StrContent(t_invoice))))
  \/ MarkProcessing(d)
  \/ StoreOcr(d)
  \/ StoreContents(d)
  \/ Classify(d)
  \/ AutoSchemaOpen(d)
  \/ \E outcome \in PairSchemaOutcomes : AutoSchema(d, outcome)
  \/ AutoSchemaCommit(d)
  \/ MarkProcessed(d)

PairNext == \E d \in PairIds : PairStep(d)

PairSpec == PairInit /\ [][PairNext]_vars

(***************************************************************************)
(* The same upload through both routes: d1 through POST /documents, which  *)
(* creates a Metrics row, and d2 through POST /documents/base64, which     *)
(* creates none.  Both are an image with a model and no schema.            *)
(***************************************************************************)

FormDoc == "d1"
Base64Doc == "d2"

RoutesInit ==
  /\ api_key \in BOOLEAN
  /\ blobs = [d \in PairIds |-> None]
  /\ documents = [d \in PairIds |-> None]
  /\ metrics = [d \in PairIds |-> None]
  /\ ocr_results = <<>>
  /\ contents = <<>>
  /\ classifications = <<>>
  /\ doc_schemas = <<>>
  /\ schema_defs = {InvoiceTemplate}
  /\ extractions = <<>>
  /\ tasks = [d \in PairIds |-> None]
  /\ run = [d \in PairIds |-> IdleRun]
  /\ status_log = [d \in PairIds |-> <<>>]
  /\ cls = IdleCls
  /\ fb = IdleFb
  /\ li = IdleLi
  /\ te = IdleTe

RoutesStep(d) ==
  \/ StartRun(d)
  \/ DownloadOk(d)
  \/ OcrStart(d, TRUE)
  \/ \E outcome \in DocOutcomes : OcrSingle(d, outcome)
  \/ OcrException(d)
  \/ MarkProcessing(d)
  \/ StoreOcr(d)
  \/ StoreContents(d)
  \/ Classify(d)
  \/ AutoSchemaOpen(d)
  \/ AutoSchema(d, Return([json |-> Some(CompleteProposal([total |-> <<"7">>]))]))
  \/ AutoSchemaCommit(d)
  \/ MarkProcessed(d)

RoutesNext ==
  \/ upload_document(FormDoc, PairFile, Some("m1"), None)
  \/ upload_document_base64(Base64Doc, PairFile, Some("m1"), None)
  \/ \E d \in PairIds : RoutesStep(d)

RoutesSpec == RoutesInit /\ [][RoutesNext]_vars

(***************************************************************************)
(* TableExtractor._parse_table_element and _parse_table_from_cells         *)
(* (app/services/table_extractor.py), called on the two representations   *)
(* of one rectangular table of up to MaxRows rows.                         *)
(***************************************************************************)

\* cell.get("text", "")
CellText(cell) == Get(cell, "text", <<>>)

\* lines 119-125: the texts of one row's cells
RowData(cells) == [i \in 1..Len(cells) |-> CellText(cells[i])]

\* C25's mutant: the cells of a row stay in list order
C25_Mutant_SortByCol(pairs) == pairs

\* sorted(cells_in_row, key=lambda x: x[0]): a stable sort on the column
RECURSIVE SortByCol(_)
SortByCol(pairs) ==
  IF pairs = <<>> THEN <<>>
  ELSE LET rest == SortByCol(SubSeq(pairs, 1, Len(pairs) - 1))
           last == pairs[Len(pairs)]
           k == Cardinality({i \in 1..Len(rest) : rest[i].col <= last.col})
       IN SubSeq(rest, 1, k) \o <<last>> \o SubSeq(rest, k + 1, Len(rest))

\* lines 157-197.  rows_dict groups (col, text) by row in list order; the
\* rows are taken in ascending row index and the first of them is the header.
_parse_table_from_cells(cells) ==
  LET row_keys == {Get(cells[i], "row", 0) : i \in 1..Len(cells)}
      InRow(r) ==
        LET idx == SelectSeq([i \in 1..Len(cells) |-> i],
                             LAMBDA i : Get(cells[i], "row", 0) = r)
        IN [j \in 1..Len(idx) |->
              [col |-> Get(cells[idx[j]], "col", 0), text |-> CellText(cells[idx[j]])]]
      RowOf(r) ==
        LET sorted_cells == SortByCol(InRow(r))
        IN [j \in 1..Len(sorted_cells) |-> sorted_cells[j].text]
      \* the n-th row key in ascending order
      Key(n) == CHOOSE r \in row_keys : Cardinality({q \in row_keys : q < r}) = n - 1
      headers == IF row_keys = {} THEN <<>> ELSE RowOf(Key(1))
      data_rows == [n \in 1..(Cardinality(row_keys) - 1) |-> RowOf(Key(n + 1))]
  IN [headers |-> headers, rows |-> data_rows, row_count |-> Len(data_rows),
      column_count |-> Len(headers)]

\* lines 98-143.  A row without cells is skipped, also when it is row 0.
_parse_table_element(element) ==
  LET rows == Get(element, "rows", <<>>) IN
  IF rows = <<>>
  THEN LET cells == Get(element, "cells", <<>>)
       IN IF cells # <<>> THEN Some(_parse_table_from_cells(cells)) ELSE None
  ELSE LET HasCells(row_idx) == Get(rows[row_idx], "cells", <<>>) # <<>>
           headers == IF HasCells(1) THEN RowData(rows[1].cells) ELSE <<>>
           kept == SelectSeq([i \in 1..(Len(rows) - 1) |-> i + 1], HasCells)
           data_rows == [j \in 1..Len(kept) |-> RowData(rows[kept[j]].cells)]
       IN Some([headers |-> headers, rows |-> data_rows, row_count |-> Len(data_rows),
                column_count |-> Len(headers)])

\* the largest number of rows of a parsed table, the header row included
MaxRows == 2

SampleCols == {1, 2}

\* how the cells of a sample table are labelled: by position, all alike, or
\* without a text
TextSchemes == {"position", "same", "missing"}

SampleCell(scheme, r, c) ==
  IF scheme = "position" THEN [row |-> r - 1, col |-> c - 1, text |-> IntStr(r) \o IntStr(c)]
  ELSE IF scheme = "same" THEN [row |-> r - 1, col |-> c - 1, text |-> <<"x">>]
  ELSE [row |-> r - 1, col |-> c - 1]

\* the table as nested rows of cells
NestedElement(scheme, R, C) ==
  [rows |-> [r \in 1..R |-> [cells |-> [c \in 1..C |-> SampleCell(scheme, r, c)]]]]

\* the same cells as a flat list, in the order perm
FlatElement(scheme, R, C, perm) ==
  [cells |-> [i \in 1..(R * C) |->
                SampleCell(scheme, ((perm[i] - 1) \div C) + 1, ((perm[i] - 1) % C) + 1)]]

ParseInit ==
  /\ api_key = TRUE
  /\ blobs = [d \in DocIds |-> None]
  /\ documents = [d \in DocIds |-> None]
  /\ metrics = [d \in DocIds |-> None]
  /\ ocr_results = <<>>
  /\ contents = <<>>
  /\ classifications = <<>>
  /\ doc_schemas = <<>>
  /\ schema_defs = {InvoiceTemplate}
  /\ extractions = <<>>
  /\ tasks = [d \in DocIds |-> None]
  /\ run = [d \in DocIds |-> IdleRun]
  /\ status_log = [d \in DocIds |-> <<>>]
  /\ cls = IdleCls
  /\ fb = IdleFb
  /\ li = IdleLi
  /\ \E scheme \in TextSchemes, R \in 1..MaxRows, C \in SampleCols :
       \E perm \in Permutations(1..(R * C)) :
          te = [IdleTe EXCEPT !.nested = NestedElement(scheme, R, C),
                              !.flat = FlatElement(scheme, R, C, perm)]

ParseCall ==
  /\ ~te.parsed
  /\ te' = [te EXCEPT !.nested_result = _parse_table_element(te.nested),
                      !.flat_result = _parse_table_element(te.flat),
                      !.parsed = TRUE]
  /\ UNCHANGED <<pipeline_vars, cls, fb, li>>

ParseSpec == ParseInit /\ [][ParseCall]_vars

(***************************************************************************)
(* _update_document_status called on its own: a Document created through   *)
(* POST /documents/base64 receives status writes whose details hold null   *)
(* and non-null values, and DELETE /documents/{id} may remove the Document *)
(* between two writes.                                                     *)
(***************************************************************************)

\* the largest number of status writes one Document receives
MaxWrites == 3

\* details dictionaries as process_document_task passes them (lines 52-56,
\* 87-91, 159-163, 166-182, 242-246), and one whose values are all None
StatusUpdates ==
  {[stage |-> Some("downloading_from_blob"), blob_path |-> Some("d1")],
   [stage |-> Some("running_ocr"), model |-> Some("m1")],
   [stage |-> Some("ocr_failed"), error |-> Some(msg_timeout)],
   [content_type |-> None, stage |-> Some("ocr_complete"), docling |-> None,
    docling_text |-> None, parasail |-> None],
   [content_type |-> Some("image/jpeg"), stage |-> Some("ocr_complete"),
    docling |-> None, docling_text |-> None,
    parasail |-> Some([model |-> "m1", response |-> None, text |-> None])],
   [stage |-> Some("complete"), extraction_complete |-> Some(TRUE)],
   [stage |-> None, error |-> None]}

StatusInit ==
  /\ api_key = TRUE
  /\ blobs = [d \in DocIds |-> None]
  /\ documents = [d \in DocIds |-> None]
  /\ metrics = [d \in DocIds |-> None]
  /\ ocr_results = <<>>
  /\ contents = <<>>
  /\ classifications = <<>>
  /\ doc_schemas = <<>>
  /\ schema_defs = {InvoiceTemplate}
  /\ extractions = <<>>
  /\ tasks = [d \in DocIds |-> None]
  /\ run = [d \in DocIds |-> IdleRun]
  /\ status_log = [d \in DocIds |-> <<>>]
  /\ cls = IdleCls
  /\ fb = IdleFb
  /\ li = IdleLi
  /\ te = IdleTe

\* one call of _update_document_status(document_id, status=, details=)
UpdateStatus(d, status, details) ==
  /\ run[d].pc = "queued"
  /\ Len(status_log[d]) <= MaxWrites
  /\ StatusWrite(d, status, details)
  /\ UNCHANGED <<api_key, tasks, blobs, metrics, ocr_results, contents, classifications,
                 doc_schemas, schema_defs, extractions, run, cls, fb, li, te>>

\* DELETE /documents/{document_id} (documents.py lines 660-712): 404 without
\* the Document; else the row goes, its related rows with it (models.py lines
\* 55-69), and the blob is deleted unless the storage call fails
delete_document(d, blob_deleted) ==
  /\ ~documents[d].none
  /\ documents' = [documents EXCEPT ![d] = None]
  /\ metrics' = [metrics EXCEPT ![d] = None]
  /\ ocr_results' = SelectSeq(ocr_results, LAMBDA row : row.document_id # d)
  /\ contents' = SelectSeq(contents, LAMBDA row : row.document_id # d)
  /\ classifications' = SelectSeq(classifications, LAMBDA row : row.document_id # d)
  /\ doc_schemas' = SelectSeq(doc_schemas, LAMBDA row : row.document_id # d)
  /\ extractions' = SelectSeq(extractions, LAMBDA row : row.document_id # d)
  /\ blobs' = IF blob_deleted THEN [blobs EXCEPT ![d] = None] ELSE blobs
  /\ UNCHANGED <<api_key, tasks, schema_defs, run, status_log, cls, fb, li, te>>

StatusNext ==
  \E d \in DocIds :
     \/ upload_document_base64(d, PairFile, Some("m1"), None)
     \/ \E status \in {"processing", "processed"}, details \in StatusUpdates :
           UpdateStatus(d, status, details)
     \/ \E blob_deleted \in BOOLEAN : delete_document(d, blob_deleted)

StatusSpec == StatusInit /\ [][StatusNext]_vars

(***************************************************************************)
(* One run of an image uploaded without a schema, while a user applies a   *)
(* schema to the Document through POST /documents/{id}/schemas at any      *)
(* moment of the run.                                                      *)
(***************************************************************************)

\* a second user template, which the classifier does not suggest for an invoice
ContractTemplate ==
  [id |-> 2, name |-> <<"C", "o", "n", "t", "r", "a", "c", "t">>,
   category |-> Some(kw_contract), fields |-> <<"Parties", "Effective Date">>,
   is_template |-> TRUE]

\* POST /documents/{document_id}/schemas (documents.py lines 629-657): 404
\* without the Document or the schema; else a SchemaAssignment is added and
\* the Document points to the schema
apply_schema(d, schema_id, values) ==
  /\ ~documents[d].none
  /\ \E schema \in schema_defs :
       /\ schema.id = schema_id
       /\ doc_schemas' = Append(doc_schemas,
            [document_id |-> d, schema_id |-> schema.id, extracted_values |-> values])
       /\ documents' = [documents EXCEPT ![d] = Some(
            [@.val EXCEPT
               !.selected_schema_id = Some(schema.id),
               !.detected_type =
                  IF Truthy(schema.category) /\ ~Truthy(@) THEN schema.category ELSE @,
               !.detected_confidence =
                  IF Truthy(schema.category) /\ ~Truthy(documents[d].val.detected_type)
                  THEN Some(100) ELSE @])]
  /\ UNCHANGED <<api_key, tasks, blobs, status_log, metrics, ocr_results, contents,
                 classifications, schema_defs, extractions, run, cls, fb, li, te>>

ApplyInit ==
  /\ api_key = TRUE
  /\ blobs = [d \in DocIds |-> None]
  /\ documents = [d \in DocIds |-> None]
  /\ metrics = [d \in DocIds |-> None]
  /\ ocr_results = <<>>
  /\ contents = <<>>
  /\ classifications = <<>>
  /\ doc_schemas = <<>>
  /\ schema_defs = {InvoiceTemplate, ContractTemplate}
  /\ extractions = <<>>
  /\ tasks = [d \in DocIds |-> None]
  /\ run = [d \in DocIds |-> IdleRun]
  /\ status_log = [d \in DocIds |-> <<>>]
  /\ cls = IdleCls
  /\ fb = IdleFb
  /\ li = IdleLi
  /\ te = IdleTe

\* the steps of the run
ApplyRunStep(d) ==
  \/ StartRun(d)
  \/ DownloadOk(d)
  \/ OcrStart(d, TRUE)
  \/ \E text \in {t_invoice, t_hello} :
        OcrSingle(d, Return(ChatResponse(StrContent(text))))
  \/ MarkProcessing(d)
  \/ StoreOcr(d)
  \/ StoreContents(d)
  \/ Classify(d)
  \/ AutoSchemaOpen(d)
  \/ \E outcome \in PairSchemaOutcomes : AutoSchema(d, outcome)
  \/ AutoSchemaCommit(d)
  \/ MarkProcessed(d)

\* the user applies each template at most once
ApplyNext ==
  \E d \in DocIds :
     \/ upload_document(d, PairFile, Some("m1"), None)
     \/ ApplyRunStep(d)
     \/ \E schema \in {InvoiceTemplate, ContractTemplate} :
          /\ \A i \in DOMAIN doc_schemas : doc_schemas[i].schema_id # schema.id
          /\ apply_schema(d, schema.id, NoValues)

ApplySpec == ApplyInit /\ [][ApplyNext]_vars

(***************************************************************************)
(* Properties                                                              *)
(***************************************************************************)

Range(seq) == {seq[i] : i \in 1..Len(seq)}

DocStatus(d) == IF documents[d].none THEN "absent" ELSE documents[d].val.status

DocDetails(d) == IF documents[d].none THEN EmptyDict ELSE documents[d].val.details

RowsOf(table, d) == SelectSeq(table, LAMBDA row : row.document_id = d)

ForwardChain == <<"uploaded", "downloading", "downloaded", "processing", "processed">>

InChain(status) == status \in Range(ForwardChain)

Rank(status) == CHOOSE i \in 1..Len(ForwardChain) : ForwardChain[i] = status

\* the run of d got the bytes from storage
Downloaded(d) == ~run[d].file_bytes.none

\* the run of d caught a failure of the download
DownloadFailed(d) == "Failed to download document" \in run[d].log

\* the whole-document OCR call of the run of d raised
WholeDocCallFailed(d) == "Parasail OCR request failed" \in run[d].log

\* the OCR stage of the run of d raised into the orchestrator's handler
OcrStageRaised(d) == "Parasail OCR failed" \in run[d].log

\* the schema generation of the run of d raised
SchemaInferenceFailed(d) == "Failed to auto-generate schema with AI" \in run[d].log

\* details carry an ocr_failed marker
HasOcrFailedMarker(details) ==
  \/ "ocr_failed" \in DOMAIN details
  \/ "stage" \in DOMAIN details /\ details.stage = "ocr_failed"

\* C1: from the status the Document is created with and through every status
\* write of its run, the status never moves to an earlier state of the chain
\* uploaded < downloading < downloaded < processing < processed, and error is
\* entered only from downloading.
C1_StatusNeverRegresses ==
  \A d \in DocIds :
    LET log == status_log[d] IN
    /\ \A i, j \in 1..Len(log) :
          (i < j /\ InChain(log[i]) /\ InChain(log[j])) => Rank(log[i]) <= Rank(log[j])
    /\ \A j \in 1..Len(log) :
          log[j] = "error" => (j > 1 /\ log[j - 1] = "downloading")

\* C2: a run whose download succeeded ends with status processed, whatever the
\* later external calls do.
C2_DownloadedRunEndsProcessed ==
  \A d \in DocIds :
    Downloaded(d) ~> (run[d].pc = "done" /\ DocStatus(d) = "processed")

\* a finished run that ended processed although a later call failed
C2_Witness ==
  \E d \in DocIds :
    /\ run[d].pc = "done" /\ DocStatus(d) = "processed"
    /\ OcrStageRaised(d) \/ WholeDocCallFailed(d) \/ SchemaInferenceFailed(d)

NoOcrTrace(d) ==
  /\ "ocr_processing" \notin Range(status_log[d])
  /\ "ocr_failed" \notin Range(status_log[d])
  /\ ~HasOcrFailedMarker(DocDetails(d))
  /\ RowsOf(ocr_results, d) = <<>>
  /\ \A i \in 1..Len(contents) :
        contents[i].document_id = d => contents[i].source # "parasail"

NoModelRun(d) == run[d].pc # "idle" /\ run[d].model_name.none

\* C4 as amended: in a run with no model selected the status is never
\* ocr_processing or ocr_failed, details never carry an ocr_failed marker, no
\* OcrResult and no OCR-sourced Content row exists, and the run, when its
\* download succeeded, ends with status processed.
C4_NoModelSkipsOcr ==
  \A d \in DocIds :
    NoModelRun(d) =>
      /\ NoOcrTrace(d)
      /\ (run[d].pc = "done" /\ Downloaded(d)) => DocStatus(d) = "processed"

\* C4 as stated: every run with no model selected ends with status processed.
C4_AsStated ==
  \A d \in DocIds :
    NoModelRun(d) =>
      /\ NoOcrTrace(d)
      /\ run[d].pc = "done" => DocStatus(d) = "processed"

C4_Witness ==
  \E d \in DocIds : NoModelRun(d) /\ run[d].pc = "done" /\ DocStatus(d) = "processed"

\* C5: when the whole-document call fails, the outcome carries the error and no
\* text, the stored OcrResult has that error payload and a null extracted_text,
\* no OCR-sourced Content row is created, and the status is never error.
C5_WholeDocFailureIsAbsorbed ==
  \A d \in DocIds :
    WholeDocCallFailed(d) =>
      /\ ~run[d].parasail_response.none
      /\ "error" \in DOMAIN run[d].parasail_response.val
      /\ run[d].parasail_response.val.error = msg_timeout
      /\ run[d].parasail_text.none
      /\ run[d].pc \in {"store_contents", "classify", "schema", "schema_call", "schema_write", "finish", "done"} =>
           /\ Len(RowsOf(ocr_results, d)) = 1
           /\ RowsOf(ocr_results, d)[1].raw_response = run[d].parasail_response.val
           /\ RowsOf(ocr_results, d)[1].extracted_text.none
      /\ \A i \in 1..Len(contents) :
            contents[i].document_id = d => contents[i].source # "parasail"
      /\ "error" \notin Range(status_log[d])
      /\ DocStatus(d) # "error"

C5_Witness == \E d \in DocIds : WholeDocCallFailed(d) /\ run[d].pc = "done"

\* C6: when an OCR call of the run failed, details carry an ocr_failed marker
\* when the Document is processed.
C6_OcrFailureMarkerAtProcessed ==
  \A d \in DocIds :
    ((WholeDocCallFailed(d) \/ OcrStageRaised(d)) /\ DocStatus(d) = "processed")
      => HasOcrFailedMarker(DocDetails(d))

\* the keys the upload and the download, OCR and completion stages write
OtherStageKeys ==
  {"content_type", "preprocessing", "uploaded_via", "stage", "blob_path", "file_size",
   "model", "error", "docling", "docling_text", "parasail", "extraction_complete"}

\* C7: when schema inference failed in a run, details hold an entry under a
\* key of the schema stage once the stage is over.
C7_SchemaFailureInDetails ==
  \A d \in DocIds :
    (SchemaInferenceFailed(d) /\ run[d].pc \in {"finish", "done"})
      => \E k \in DOMAIN DocDetails(d) : k \notin OtherStageKeys

Heading(k) == <<"=", "=", "=", " ", "P", "a", "g", "e", " ">> \o IntStr(k) \o <<" ", "=", "=", "=">>

\* the position right before the first occurrence of sub in s
Find(s, sub) ==
  CHOOSE i \in 0..(Len(s) - Len(sub)) :
    /\ SubSeq(s, i + 1, i + Len(sub)) = sub
    /\ \A j \in 0..(i - 1) : SubSeq(s, j + 1, j + Len(sub)) # sub

\* the text between the heading of page k and the next heading (or the end)
Section(text, k, n) ==
  SubSeq(text, Find(text, Heading(k)) + Len(Heading(k)) + 1,
         IF k < n THEN Find(text, Heading(k + 1)) ELSE Len(text))

\* C8: combined_text holds exactly one section per page 1..N, in ascending
\* order; a failed page's section holds its error marker and a page with text
\* holds that text.
C8_EveryPageHasOneSection ==
  \A d \in DocIds :
    (~run[d].parasail_response.none /\ "pages" \in DOMAIN run[d].parasail_response.val) =>
      LET r == run[d].parasail_response.val
          n == r.page_count
      IN /\ \A k \in 1..n : Occurrences(r.combined_text, Heading(k)) = 1
         /\ \A k \in 1..(n - 1) :
               Find(r.combined_text, Heading(k)) < Find(r.combined_text, Heading(k + 1))
         /\ \A k \in 1..n :
               LET page == r.pages[k]
                   section == Section(r.combined_text, k, n)
               IN IF "error" \in DOMAIN page
                  THEN Contains(section, ErrPre \o page.error \o ErrPost)
                  ELSE Len(page.choices) > 0 =>
                         Contains(section, FormatContent(page.choices[1].message.content))

\* C9: a text that contains both "master services agreement" and "contract"
\* is labelled MSA.
C9_MsaBeatsContract ==
  (/\ ~cls.result.none
   /\ Truthy(cls.text)
   /\ Contains(Lower(cls.text.val), kw_msa)
   /\ Contains(Lower(cls.text.val), kw_contract))
    => cls.result.val.label = s_MSA

\* no keyword of the rules and no phrase of the two heuristics is in the text
NothingMatches(text) ==
  LET normalized == Lower(text) IN
  /\ \A kw \in {kw_contract, kw_msa, kw_sow, kw_invoice, kw_po} : ~Contains(normalized, kw)
  /\ \A ph \in {re_total_due, re_balance_due, re_invoice_number, re_scope_of_work,
                re_deliverable} : ~SearchWord(normalized, ph)

\* C11: for a null or empty text, and for a text that matches no keyword rule
\* and no structural heuristic, classify returns the default: label unknown,
\* confidence 0.0, no suggested schema.
C11_NoMatchGivesUnknown ==
  (/\ ~cls.result.none
   /\ (~Truthy(cls.text) \/ NothingMatches(cls.text.val)))
    => /\ cls.result.val.label = s_unknown
       /\ cls.result.val.confidence = 0
       /\ cls.result.val.suggested_schema_name.none
       /\ cls.result.val.suggested_fields = <<>>

\* a non-empty text that matches nothing has been classified
C11_Witness ==
  /\ ~cls.result.none
  /\ Truthy(cls.text)
  /\ NothingMatches(cls.text.val)

\* the two parts of a scanned line around its first colon
LineParts(raw_line) == SplitOnce(Strip(raw_line), ":")

\* a line of the form 'key: value': a colon with text on both sides
IsKeyValueLine(raw_line) ==
  /\ FirstIndex(Strip(raw_line), ":") # 0
  /\ Strip(LineParts(raw_line)[1]) # <<>>
  /\ Strip(LineParts(raw_line)[2]) # <<>>

DictKeys(dict) == {dict[i].key : i \in 1..Len(dict)}

DictGet(dict, key) ==
  IF key \in DictKeys(dict)
  THEN Some(dict[CHOOSE i \in 1..Len(dict) : dict[i].key = key].value)
  ELSE None

\* the fields list has exactly one field per extracted key, each not required
FieldsMirrorKeys(result) ==
  /\ Len(result.fields) = Len(result.extracted_values)
  /\ \A i \in 1..Len(result.fields) :
        /\ result.fields[i].key = result.extracted_values[i].key
        /\ result.fields[i].required = FALSE
        /\ DOMAIN result.fields[i] = {"key", "value_type", "description", "required"}
  /\ \A i, j \in 1..Len(result.fields) :
        result.fields[i].key = result.fields[j].key => i = j

ExampleText == ln_invoice_number \o <<"\n">> \o ln_total

\* C12 as amended: after a failed generative call, every scanned 'key: value'
\* line whose key is shorter than 50 characters, and that no later line
\* repeats the key of, has its lower-case snake_case key mapped to its trimmed
\* value; the keys come from such lines only and hold no capital, space or
\* hyphen; 'Invoice Number: INV-001' and 'Total: 42.00' give invoice_number =
\* 'INV-001' and total = '42.00'; there is one not-required field per key.
C12_FallbackMirrorsLines ==
  (~fb.result.none /\ fb.raised) =>
    LET result == fb.result.val
        lines == ScannedLines(fb.ocr_text)
        Kept(i) == IsKeyValueLine(lines[i]) /\ Len(LineKey(LineParts(lines[i]))) < MaxKeyLen
    IN /\ \A i \in 1..Len(lines) :
            (/\ Kept(i)
             /\ \A j \in (i + 1)..Len(lines) :
                   Kept(j) => LineKey(LineParts(lines[j])) # LineKey(LineParts(lines[i])))
              => DictGet(result.extracted_values, LineKey(LineParts(lines[i])))
                   = Some(LineValue(LineParts(lines[i])))
       /\ \A k \in DictKeys(result.extracted_values) :
            /\ \E i \in 1..Len(lines) : Kept(i) /\ LineKey(LineParts(lines[i])) = k
            /\ \A c \in Range(k) : c \notin DOMAIN UpperToLower \cup {" ", "-"}
       /\ fb.ocr_text = ExampleText =>
            result.extracted_values = <<[key |-> k_invoice_number, value |-> v_inv_001],
                                        [key |-> k_total, value |-> v_42_00]>>
       /\ FieldsMirrorKeys(result)

\* C12 as stated: every scanned 'key: value' line has its key mapped to its
\* trimmed value.
C12_AsStated ==
  (~fb.result.none /\ fb.raised) =>
    LET result == fb.result.val
        lines == ScannedLines(fb.ocr_text)
    IN /\ \A i \in 1..Len(lines) :
            IsKeyValueLine(lines[i])
              => DictGet(result.extracted_values, LineKey(LineParts(lines[i])))
                   = Some(LineValue(LineParts(lines[i])))
       /\ FieldsMirrorKeys(result)

\* the documented example went through the fallback
C12_Witness == ~fb.result.none /\ fb.raised /\ fb.ocr_text = ExampleText

\* the run of d had text to infer from and no initial schema
InferenceRan(d) == run[d].pc \in {"finish", "done"} /\ InferenceDue(run[d])

\* C13: when the generative schema-inference call of a run with OCR text and
\* no initial schema fails, a schema artifact is still persisted for the
\* Document: a SchemaAssignment, or at least a selected schema.
C13_FailedInferenceFallsBack ==
  \A d \in DocIds :
    (InferenceRan(d) /\ SchemaInferenceFailed(d)) =>
      \/ RowsOf(doc_schemas, d) # <<>>
      \/ ~documents[d].val.selected_schema_id.none

\* the run of d was given an initial schema
SchemaSupplied(d) == run[d].pc # "idle" /\ ~run[d].initial_schema_id.none

\* what a run with an initial schema never does
NoInferenceTrace(d) ==
  /\ run[d].pc \notin {"classify", "schema", "schema_call", "schema_write"}
  /\ run[d].log \cap {"Failed to auto-generate schema with AI",
                      "No schema generators available"} = {}
  /\ AdHocSchema = {}
  /\ schema_defs = {InvoiceTemplate}
  /\ RowsOf(doc_schemas, d) = <<>>

\* C14 as amended: a run given an initial_schema_id makes no schema-inference
\* call, neither creates nor modifies the ad-hoc SchemaDefinition, creates no
\* SchemaAssignment, and, when its download succeeded, ends processed.
C14_SuppliedSchemaSkipsInference ==
  \A d \in DocIds :
    SchemaSupplied(d) =>
      /\ NoInferenceTrace(d)
      /\ (run[d].pc = "done" /\ Downloaded(d)) => DocStatus(d) = "processed"

\* C14 as stated: every run given an initial_schema_id ends processed.
C14_AsStated ==
  \A d \in DocIds :
    SchemaSupplied(d) =>
      /\ NoInferenceTrace(d)
      /\ run[d].pc = "done" => DocStatus(d) = "processed"

\* a run with an initial schema and OCR text has ended processed
C14_Witness ==
  \E d \in DocIds :
    /\ SchemaSupplied(d)
    /\ Truthy(run[d].parasail_text)
    /\ run[d].pc = "done"
    /\ DocStatus(d) = "processed"

\* the finished run of d: a 1-page PDF, a model, no schema, OCR text, and a
\* schema proposal with extracted values
HappyPath(d) ==
  /\ run[d].pc = "done"
  /\ is_pdf(run[d].file_bytes.val) /\ get_page_count(run[d].file_bytes.val) = 1
  /\ ModelSelected(run[d].model_name)
  /\ run[d].initial_schema_id.none
  /\ Truthy(run[d].parasail_text)
  /\ ~run[d].schema_data.none
  /\ DOMAIN run[d].schema_data.val.extracted_values # {}

\* C15: the happy path ends with one OcrResult with text, one Content row
\* sourced from OCR, one Classification, one SchemaAssignment against the
\* ad-hoc SchemaDefinition with non-empty extracted_values, and status
\* processed.
C15_HappyPathRows ==
  \A d \in DocIds :
    (Downloaded(d) /\ HappyPath(d)) =>
      /\ Len(RowsOf(ocr_results, d)) = 1
      /\ ~RowsOf(ocr_results, d)[1].extracted_text.none
      /\ Len(RowsOf(contents, d)) = 1
      /\ RowsOf(contents, d)[1].source = "parasail"
      /\ Len(RowsOf(classifications, d)) = 1
      /\ Len(RowsOf(doc_schemas, d)) = 1
      /\ \E sd \in AdHocSchema : RowsOf(doc_schemas, d)[1].schema_id = sd.id
      /\ DOMAIN RowsOf(doc_schemas, d)[1].extracted_values # {}
      /\ DocStatus(d) = "processed"

C15_Witness == \E d \in DocIds : Downloaded(d) /\ HappyPath(d)

(***************************************************************************)
(* C16: extract_line_items                                                 *)
(***************************************************************************)

BookkeepingKeys == {"_line_number", "_table_metadata"}

HasHeadersAndRows(table) ==
  /\ "headers" \in DOMAIN table /\ table.headers # <<>>
  /\ "rows" \in DOMAIN table /\ table.rows # <<>>

\* <<t, r>>: data row r of table t, for the tables that have headers and rows
DataRows(tables) ==
  UNION {{<<t, r>> : r \in 1..Len(tables[t].rows)} :
           t \in {i \in DOMAIN tables : HasHeadersAndRows(tables[i])}}

\* the data rows that hold at least one cell
FilledRows(tables) == {p \in DataRows(tables) : tables[p[1]].rows[p[2]] # <<>>}

PairBefore(p, q) == p[1] < q[1] \/ (p[1] = q[1] /\ p[2] < q[2])

\* the k-th pair of Q in table order, then row order
NthPair(Q, k) == CHOOSE p \in Q : Cardinality({q \in Q : PairBefore(q, p)}) = k - 1

\* column c is the last column of the row that carries its header
LastOfHeader(headers, row, c) ==
  \A c2 \in 1..Len(headers) : (c2 <= Len(row) /\ headers[c2] = headers[c]) => c2 <= c

PastInference(d) == run[d].pc \in {"finish", "done"}

\* `if base_text:` (line 221) passes for the run of d
HasText(d) == Truthy(run[d].parasail_text) \/ Truthy(run[d].docling_text)

\* some text of the run of d is not None
HasNonNullText(d) == ~run[d].parasail_text.none \/ ~run[d].docling_text.none

\* _maybe_classify_document wrote its row for d
ClassificationAttempted(d) == Len(RowsOf(classifications, d)) = 1

\* _auto_generate_schema ran for d: it got a proposal, or logged why it did not
SchemaInferenceAttempted(d) ==
  \/ ~run[d].schema_data.none
  \/ run[d].log \cap {"Failed to auto-generate schema with AI",
                      "No schema generators available"} # {}

NoInferenceRows(d) ==
  /\ RowsOf(classifications, d) = <<>>
  /\ RowsOf(doc_schemas, d) = <<>>
  /\ ~SchemaInferenceAttempted(d)

\* C17 (as amended): classification and schema inference run only when some
\* non-empty text exists.  A run without such text never enters either step
\* and creates no Classification and no SchemaAssignment row, and when its
\* download succeeded it ends processed; a run with non-empty text and no
\* schema chosen at upload attempts both.
C17_TextGatesInference ==
  \A d \in DocIds :
    /\ (run[d].pc \in {"classify", "schema", "schema_call", "schema_write"}) => HasText(d)
    /\ (PastInference(d) /\ ~HasText(d)) =>
         /\ NoInferenceRows(d)
         /\ (run[d].pc = "done" /\ Downloaded(d)) => DocStatus(d) = "processed"
    /\ (run[d].pc = "done" /\ ~Downloaded(d)) => NoInferenceRows(d)
    /\ (PastInference(d) /\ HasText(d) /\ run[d].initial_schema_id.none) =>
         ClassificationAttempted(d) /\ SchemaInferenceAttempted(d)

\* C17 as stated: every finished run without text ends processed, and every
\* run with non-null text and no schema chosen attempts both steps.
C17_AsStated ==
  \A d \in DocIds :
    /\ (run[d].pc = "done" /\ ~HasNonNullText(d)) =>
         NoInferenceRows(d) /\ DocStatus(d) = "processed"
    /\ (PastInference(d) /\ HasNonNullText(d) /\ run[d].initial_schema_id.none) =>
         ClassificationAttempted(d) /\ SchemaInferenceAttempted(d)

\* one run with a model ended processed without text and without rows
C17_Witness ==
  \E d \in DocIds :
    /\ run[d].pc = "done" /\ Downloaded(d) /\ ~HasText(d)
    /\ ModelSelected(run[d].model_name)
    /\ run[d].initial_schema_id.none
    /\ DocStatus(d) = "processed"

(***************************************************************************)
(* C18: table extraction after download                                    *)
(***************************************************************************)

\* the run of d is past the content and table-extraction step
PastTables(d) == run[d].pc \in {"classify", "schema", "schema_call", "schema_write", "finish", "done"}

\* C18: every run that passed download calls the table extraction, whether
\* OCR succeeded, failed or was not requested.  Whether the structural-parse
\* capability is installed is decided inside that call, so in an environment
\* where it is installed the call has to have been made.
C18_TablesAttemptedAfterDownload ==
  \A d \in DocIds :
    (Downloaded(d) /\ PastTables(d)) => run[d].tables_attempted

(***************************************************************************)
(* C19: runs of different Documents                                        *)
(***************************************************************************)

\* the run of d got a schema proposal and wrote it to the database
WroteSchema(d) == run[d].pc \in {"finish", "done"} /\ ~run[d].schema_data.none

\* C19: runs of different Documents are independent.  A run on its own ends
\* with the SchemaDefinition row its SchemaAssignment points to holding the
\* fields its own inference proposed; so under every interleaving of two runs
\* each finished run finds that row as it wrote it, and no row is written by
\* both runs.
C19_RunsAreIndependent ==
  \A d \in PairIds :
    WroteSchema(d) =>
      \A row \in Range(RowsOf(doc_schemas, d)) :
        \A sd \in schema_defs :
          sd.id = row.schema_id => sd.fields = run[d].schema_data.val.fields

(***************************************************************************)
(* C20: the background task queued by an upload                            *)
(***************************************************************************)

\* C20: after every successful upload the queued call of the orchestrator,
\* made with the arguments the upload route passed (Document id, storage
\* key, content type, model name, schema id, preprocessing mode), enters
\* process_document_task, whose first step moves the Document's status off
\* the value it was created with: the call never ends in a TypeError.
C20_QueuedCallStartsOrchestrator ==
  \A d \in DocIds :
    (~documents[d].none /\ ~tasks[d].none) => tasks[d].val.outcome # "TypeError"

(***************************************************************************)
(* C21: the OCR mode                                                       *)
(***************************************************************************)

\* the run of d is past the OCR stage
PastOcr(d) ==
  run[d].pc \in {"mark_processing", "store_ocr", "store_contents", "classify",
                 "schema", "schema_call", "schema_write", "finish", "done"}

\* the downloaded bytes are a PDF that reports more than one page
MultiPagePdf(d) ==
  is_pdf(run[d].file_bytes.val) /\ get_page_count(run[d].file_bytes.val) > 1

\* the response of the run of d is the dict extract_multi_page returns
UsedMultiPage(d) ==
  ~run[d].parasail_response.none /\ "pages" \in DOMAIN run[d].parasail_response.val

\* the response of the run of d is what extract_document returns
UsedSingleCall(d) ==
  /\ ~run[d].parasail_response.none
  /\ "_timing" \in DOMAIN run[d].parasail_response.val
  /\ "pages" \notin DOMAIN run[d].parasail_response.val

\* the OCR stage of d ended in its exception handler, before any extraction
\* returned: the response is the handler's {"error": ...}
OcrStageAborted(d) ==
  ~run[d].parasail_response.none /\ DOMAIN run[d].parasail_response.val = {"error"}

\* C21 (as amended): with a model selected, a run is in per-page extraction
\* only for a PDF (by magic bytes) that reports more than one page and in
\* whole-document extraction only otherwise; a run whose OCR stage did not
\* end in its exception handler used per-page extraction exactly for such a
\* PDF and whole-document extraction in every other case; a run whose stage
\* did end there (no client, or the split failed) used neither; and no run
\* used both.
C21_ModeFollowsPageCount ==
  \A d \in DocIds :
    /\ run[d].pc = "ocr_pages" => ModelSelected(run[d].model_name) /\ MultiPagePdf(d)
    /\ run[d].pc = "ocr_single" => ModelSelected(run[d].model_name) /\ ~MultiPagePdf(d)
    /\ (PastOcr(d) /\ Downloaded(d) /\ ModelSelected(run[d].model_name)) =>
         /\ ~(UsedMultiPage(d) /\ UsedSingleCall(d))
         /\ IF OcrStageAborted(d)
            THEN ~UsedMultiPage(d) /\ ~UsedSingleCall(d)
            ELSE /\ UsedMultiPage(d) <=> MultiPagePdf(d)
                 /\ UsedSingleCall(d) <=> ~MultiPagePdf(d)

\* C21 as stated: every run with a model used per-page extraction exactly for
\* a multi-page PDF and whole-document extraction in every other case.
C21_AsStated ==
  \A d \in DocIds :
    (PastOcr(d) /\ Downloaded(d) /\ ModelSelected(run[d].model_name)) =>
      /\ UsedMultiPage(d) <=> MultiPagePdf(d)
      /\ UsedSingleCall(d) <=> ~MultiPagePdf(d)

\* a PDF whose page count could not be read went through one whole-document
\* call
C21_Witness ==
  \E d \in DocIds :
    /\ PastOcr(d) /\ Downloaded(d) /\ ModelSelected(run[d].model_name)
    /\ is_pdf(run[d].file_bytes.val) /\ ~run[d].file_bytes.val.readable
    /\ UsedSingleCall(d)

(***************************************************************************)
(* C22: OCR rows before inference, inference before processed              *)
(***************************************************************************)

\* the OcrResult row and the OCR Content row of the run of d are committed
HasOcrRows(d) ==
  /\ RowsOf(ocr_results, d) # <<>>
  /\ \E i \in 1..Len(contents) :
        contents[i].document_id = d /\ contents[i].source = "parasail"

\* C22: while classification or schema inference of a run is about to start,
\* and whenever a Classification or SchemaAssignment row of the run exists,
\* the run's OcrResult row and OCR Content row are already committed; and
\* the status processed is written only by a run that is past classification
\* and schema inference, both attempted when they were due.
C22_OcrRowsPrecedeInference ==
  \A d \in DocIds :
    /\ run[d].pc \in {"classify", "schema", "schema_call", "schema_write"} =>
         HasOcrRows(d) /\ "processed" \notin Range(status_log[d])
    /\ (RowsOf(classifications, d) # <<>> \/ RowsOf(doc_schemas, d) # <<>>) =>
         HasOcrRows(d)
    /\ "processed" \in Range(status_log[d]) =>
         /\ run[d].pc = "done"
         /\ (HasText(d) /\ run[d].initial_schema_id.none) =>
              ClassificationAttempted(d) /\ SchemaInferenceAttempted(d)

\* a run has written its SchemaAssignment and is not yet processed
C22_Witness ==
  \E d \in DocIds :
    /\ run[d].pc = "finish"
    /\ RowsOf(classifications, d) # <<>>
    /\ RowsOf(doc_schemas, d) # <<>>
    /\ HasOcrRows(d)
    /\ DocStatus(d) = "processing"

(***************************************************************************)
(* C23: the Metrics update after OCR                                       *)
(***************************************************************************)

\* the run of d is past _store_ocr_result and _update_metrics_with_ocr_data
PastStoreOcr(d) ==
  run[d].pc \in {"store_contents", "classify", "schema", "schema_call", "schema_write", "finish", "done"}

\* the locals of a run, without what names the Document or the missing row
RunFacts(d) ==
  [run[d] EXCEPT !.blob_path = None, !.log = @ \ {"No metrics record found"}]

\* the rows of d in a table, without the Document's id
RowsWithoutId(table, d) ==
  LET rows == RowsOf(table, d)
  IN [i \in 1..Len(rows) |-> [rows[i] EXCEPT !.document_id = ""]]

\* the status writes of the run of d: all but the value the route created
RunStatusWrites(d) == Tail(status_log[d])

\* usage.get(key) of a raw response, None when it has no usage
UsageOf(response, key) ==
  IF "usage" \in DOMAIN response THEN Some(response.usage[key]) ELSE None

\* C23: the Metrics update after OCR is best-effort.  Without a Metrics row
\* the update writes nothing and raises nothing: the run goes on, and at
\* every point where it has the same locals as the run of the Document that
\* has a Metrics row, it has written the same statuses and the same OcrResult,
\* Content, Classification and SchemaAssignment rows.  With a Metrics row,
\* the token counts are those of the raw response's usage and the OCR
\* duration is that of its timing.
C23_MetricsUpdateIsBestEffort ==
  /\ \A d \in PairIds :
       (PastStoreOcr(d) /\ OcrResultDue(run[d])) =>
         LET response == run[d].parasail_response.val IN
         IF d = Base64Doc
         THEN metrics[d].none /\ "No metrics record found" \in run[d].log
         ELSE /\ ~metrics[d].none
              /\ metrics[d].val.prompt_tokens = UsageOf(response, "prompt_tokens")
              /\ metrics[d].val.completion_tokens = UsageOf(response, "completion_tokens")
              /\ metrics[d].val.total_tokens = UsageOf(response, "total_tokens")
              /\ metrics[d].val.ocr_duration_ms =
                   (IF "_timing" \in DOMAIN response
                    THEN Some(response._timing.duration_ms) ELSE None)
              /\ metrics[d].val.processed
  /\ (run[FormDoc].pc # "idle" /\ RunFacts(FormDoc) = RunFacts(Base64Doc)) =>
       /\ RunStatusWrites(FormDoc) = RunStatusWrites(Base64Doc)
       /\ RowsWithoutId(ocr_results, FormDoc) = RowsWithoutId(ocr_results, Base64Doc)
       /\ RowsWithoutId(contents, FormDoc) = RowsWithoutId(contents, Base64Doc)
       /\ RowsWithoutId(classifications, FormDoc)
            = RowsWithoutId(classifications, Base64Doc)
       /\ RowsWithoutId(doc_schemas, FormDoc) = RowsWithoutId(doc_schemas, Base64Doc)

\* both runs ended after the same OCR response, one without a Metrics row
C23_Witness ==
  /\ run[FormDoc].pc = "done" /\ run[Base64Doc].pc = "done"
  /\ RunFacts(FormDoc) = RunFacts(Base64Doc)
  /\ OcrResultDue(run[Base64Doc])
  /\ "usage" \in DOMAIN run[FormDoc].parasail_response.val
  /\ metrics[Base64Doc].none
  /\ ~metrics[FormDoc].none /\ metrics[FormDoc].val.total_tokens = Some(Usage.total_tokens)
  /\ DocStatus(Base64Doc) = "processed"

(***************************************************************************)
(* C24: extract_multi_page                                                 *)
(***************************************************************************)

\* entry i of a pages list is the entry of page i: that of a failed call,
\* carrying its error, or the provider's response with its timing
IsPageEntry(entry, i) ==
  /\ entry["_page_number"] = i
  /\ IF "error" \in DOMAIN entry
     THEN entry.error = msg_timeout /\ "choices" \notin DOMAIN entry
     ELSE "choices" \in DOMAIN entry /\ "_timing" \in DOMAIN entry

\* C24: extract_multi_page makes one provider call per page image in
\* ascending page order, each call adding the entry of its page, and a
\* failed call does not end the loop: while the loop runs the entries so far
\* are those of pages 1..k with k < N, and the returned dict has
\* page_count = N and N entries numbered 1..N in order, a failed page's entry
\* carrying its error.
C24_OneEntryPerPage ==
  \A d \in DocIds :
    /\ run[d].pc = "ocr_pages" =>
         LET sofar == run[d].loc.all_pages_results IN
         /\ Len(sofar) < run[d].n_pages
         /\ \A i \in 1..Len(sofar) : IsPageEntry(sofar[i], i)
    /\ (PastOcr(d) /\ UsedMultiPage(d)) =>
         LET result == run[d].parasail_response.val
             N == get_page_count(run[d].file_bytes.val)
         IN /\ result.page_count = N
            /\ Len(result.pages) = N
            /\ \A i \in 1..N : IsPageEntry(result.pages[i], i)

\* the call for page 1 failed and the call for the last page was still made
C24_Witness ==
  \E d \in DocIds :
    /\ PastOcr(d) /\ UsedMultiPage(d)
    /\ "error" \in DOMAIN run[d].parasail_response.val.pages[1]
    /\ LET pages == run[d].parasail_response.val.pages
       IN Len(pages) = MaxPages /\ "error" \notin DOMAIN pages[Len(pages)]

(***************************************************************************)
(* C25: the two table representations                                      *)
(***************************************************************************)

\* the texts of row r (counted from 1) of the nested representation
NestedRowTexts(r) == RowData(te.nested.rows[r].cells)

\* C25: for every rectangular table with at least one row and one column,
\* parsing it as nested rows of cells and parsing the same cells as a flat
\* list with row/col coordinates, in any list order, give the same Table:
\* headers are row 0, the data rows are the other rows in order, row_count is
\* the number of data rows and column_count the number of headers.
C25_RepresentationsAgree ==
  te.parsed =>
    LET R == Len(te.nested.rows)
        C == Len(te.nested.rows[1].cells)
    IN /\ ~te.nested_result.none /\ ~te.flat_result.none
       /\ te.flat_result = te.nested_result
       /\ te.flat_result.val.headers = NestedRowTexts(1)
       /\ te.flat_result.val.rows = [r \in 1..(R - 1) |-> NestedRowTexts(r + 1)]
       /\ te.flat_result.val.row_count = R - 1
       /\ te.flat_result.val.column_count = C

\* a table of two rows and two columns whose flat list starts with its last
\* cell was parsed both ways
C25_Witness ==
  /\ te.parsed
  /\ Len(te.nested.rows) = 2 /\ Len(te.nested.rows[1].cells) = 2
  /\ te.flat.cells[1].row = 1 /\ te.flat.cells[1].col = 1
  /\ CellText(te.flat.cells[1]) = <<"2", "2">>
  /\ te.flat_result.val.headers = <<<<"1", "1">>, <<"1", "2">>>>
  /\ te.flat_result.val.rows = <<<<<<"2", "1">>, <<"2", "2">>>>>>

(***************************************************************************)
(* C26: sessions and external calls                                        *)
(***************************************************************************)

\* the run of d is waiting for an external call: the storage download, a
\* provider call of the OCR stage, or the schema-inference call
ExternalCallInFlight(d) ==
  run[d].pc \in {"download", "ocr_single", "ocr_pages", "schema_call"}

\* C26: no database session of a run is open while the run waits for an
\* external call.
C26_NoSessionAcrossExternalCall ==
  \A d \in DocIds : ExternalCallInFlight(d) => ~run[d].session_open

InferenceReturned(d) == run[d].pc \in {"finish", "done"} /\ ~run[d].schema_data.none

LostToUniqueName(d) ==
  /\ InferenceReturned(d)
  /\ "Failed to auto-generate schema with AI" \in run[d].log
  /\ Len(RowsOf(doc_schemas, d)) = 0

\* C27: at most one SchemaDefinition row carries the reserved ad-hoc name,
\* also when several runs use it for the first time at once; every AI
\* inference that returned a proposal either created that row or reused it,
\* so its Document has a SchemaAssignment, and every SchemaAssignment of
\* auto-inference references that row.
C27_OneAdHocSchema ==
  /\ Cardinality(AdHocSchema) <= 1
  /\ \A d \in PairIds :
       InferenceReturned(d) =>
         /\ AdHocSchema # {}
         /\ Len(RowsOf(doc_schemas, d)) = 1
  /\ \A i \in DOMAIN doc_schemas :
       doc_schemas[i].schema_id \in {sd.id : sd \in AdHocSchema}

\* what one call of _update_document_status with these details has to leave
\* behind: nothing for a Document that does not exist; for one that exists
\* every old key still there, each key of the update with a non-null value
\* holding that value, and every other key holding what it held
MergedInto(d, details) ==
  IF documents[d].none
  THEN documents'[d].none /\ status_log'[d] = status_log[d]
  ELSE /\ ~documents'[d].none
       /\ LET old == documents[d].val.details
              new == documents'[d].val.details
              given == {k \in DOMAIN details : ~details[k].none}
          IN /\ DOMAIN new = DOMAIN old \cup given
             /\ \A k \in given : new[k] = details[k].val
             /\ \A k \in DOMAIN old \ given : new[k] = old[k]

\* C28: every status write merges its details into the Document's details
\* and removes nothing: a key keeps its old value unless the update gives it
\* a non-null value, null-valued entries of the update are ignored, and a
\* write for a Document that no longer exists writes nothing.
C28_StatusWritesMerge ==
  [][\A d \in DocIds : \A status \in {"processing", "processed"} :
       \A details \in StatusUpdates :
          UpdateStatus(d, status, details) => MergedInto(d, details)]_vars

\* three writes went to one Document, whose details still hold the key the
\* upload wrote, the error an earlier write gave and the last stage written
C28_Witness ==
  \E d \in DocIds :
     /\ Len(status_log[d]) = MaxWrites + 1
     /\ ~documents[d].none
     /\ {"uploaded_via", "error", "parasail"} \subseteq DOMAIN documents[d].val.details
     /\ documents[d].val.details["stage"] = "complete"

SelectedSchema(d) == documents[d].val.selected_schema_id

\* C29: a run never replaces a schema the Document already points to: a step
\* of the run that finds selected_schema_id non-null leaves it as it is, be it
\* classification or schema inference; the run sets it only when it is null.
C29_RunKeepsSelectedSchema ==
  [][\A d \in DocIds :
       (ApplyRunStep(d) /\ ~documents[d].none /\ ~SelectedSchema(d).none) =>
          /\ ~documents'[d].none
          /\ documents'[d].val.selected_schema_id = SelectedSchema(d)]_vars

\* the user applied the contract template before classification, which
\* suggested the invoice template; the Document still points to the contract
\* template when the run is over
C29_Witness ==
  \E d \in DocIds :
     /\ run[d].pc = "done"
     /\ ~documents[d].none
     /\ SelectedSchema(d) = Some(ContractTemplate.id)
     /\ \E i \in DOMAIN classifications :
          /\ classifications[i].document_id = d
          /\ classifications[i].suggested_schema_id = Some(InvoiceTemplate.id)
     /\ \A i \in DOMAIN doc_schemas : doc_schemas[i].schema_id # InvoiceTemplate.id

OcrResultRows(d) == RowsOf(ocr_results, d)

\* C30: one run stores at most one OcrResult row: exactly one once the run is
\* past the OCR stage after a download that succeeded with a model selected,
\* whether the OCR returned text, returned an error payload or raised; none
\* when no model was selected, when the download failed, and before the OCR
\* stage is over.
C30_OneOcrResultPerRun ==
  \A d \in DocIds :
    /\ Len(OcrResultRows(d)) <= 1
    /\ (PastStoreOcr(d) /\ Downloaded(d)) =>
         Len(OcrResultRows(d)) = IF ModelSelected(run[d].model_name) THEN 1 ELSE 0
    /\ (~PastStoreOcr(d) \/ ~Downloaded(d)) => Len(OcrResultRows(d)) = 0

\* a run whose OCR stage raised is over, with the one row holding the error
C30_Witness ==
  \E d \in DocIds :
     /\ run[d].pc = "done"
     /\ "Parasail OCR failed" \in run[d].log
     /\ Len(OcrResultRows(d)) = 1
     /\ "error" \in DOMAIN OcrResultRows(d)[1].raw_response

====
